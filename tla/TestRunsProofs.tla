--------------------------- MODULE TestRunsProofs ---------------------------
(***************************************************************************)
(* Theorems about system-test runs, for every set of runs and workers,     *)
(* every number of cases and every limit.  What one report may do to a run *)
(* row is said once (Becomes); the invariants of the ledger follow row by  *)
(* row, and what the actors must keep for each other is Inv below.         *)
(***************************************************************************)
EXTENDS TestRuns, FiniteSetTheorems, WellFoundedInduction, TLAPS

(***************************************************************************)
(* What a step other than a claim may make of a run row.                   *)
(***************************************************************************)
Becomes(a, b) ==
    \/ b = a
    \/ a.state = "none" /\ b = Launched
    \/ a.state \in Outcomes /\ b = NoRun
    \/ a.state # "none" /\ b = [a EXCEPT !.cancel = "requested"]
    \/ \E beat \in {"fresh", "stale"} : b = [a EXCEPT !.beat = beat]
    \/ b = [a EXCEPT !.evidence = TRUE, !.beat = "fresh"]
    \/ \E to \in (Phases \cup Outcomes) \ {"queued", "provisioning"} :
          CanTransition(a, to) /\ b = Moved(a, to)
    \/ CanTransition(a, "cancelled") /\ b = Acknowledged(a)
    \/ \E to \in CleanupStates : CanClean(a, to) /\ b = CleanedUp(a, to)
    \/ \E c \in Cases, status \in {"passed", "failed", "blocked"} :
          CanRecord(a, c) /\ b = Recorded(a, c, status)

(***************************************************************************)
(* The rows the store writes are of the row type.                          *)
(***************************************************************************)
LEMMA RowForms ==
    /\ NoRun \in Run
    /\ Launched \in Run
    /\ \A a \in Run, to \in Phases \cup Outcomes : Moved(a, to) \in Run
    /\ \A a \in Run : Acknowledged(a) \in Run
    /\ \A a \in Run, to \in CleanupStates : CleanedUp(a, to) \in Run
    /\ \A a \in Run, c \in Cases, status \in {"passed", "failed", "blocked"} :
          Recorded(a, c, status) \in Run
<1>1. NoRun \in Run
  BY DEF NoRun, Run, CleanupStates
<1>2. Launched \in Run
  BY DEF NoRun, Run, CleanupStates, Launched, Phases
<1>3. ASSUME NEW a \in Run, NEW to \in Phases \cup Outcomes
      PROVE  Moved(a, to) \in Run
  <2>1. CleanupAfter(a.cleanup, to) \in CleanupStates
    BY DEF CleanupAfter, CleanupStates, Run
  <2> QED
    BY <2>1 DEF Moved, Run
<1>4. ASSUME NEW a \in Run PROVE Acknowledged(a) \in Run
  <2>1. [a EXCEPT !.cancel = "acknowledged"] \in Run
    BY DEF Run
  <2>2. "cancelled" \in Phases \cup Outcomes
    BY DEF Outcomes
  <2> QED
    BY <1>3, <2>1, <2>2 DEF Acknowledged
<1>5. ASSUME NEW a \in Run, NEW to \in CleanupStates
      PROVE  CleanedUp(a, to) \in Run
  <2>1. [a EXCEPT !.cleanup = to] \in Run
    BY DEF Run
  <2>2. "cleanup-failed" \in Phases \cup Outcomes
    BY DEF Outcomes
  <2> QED
    BY <1>3, <2>1, <2>2 DEF CleanedUp
<1>6. ASSUME NEW a \in Run, NEW c \in Cases, NEW status \in {"passed", "failed", "blocked"}
      PROVE  Recorded(a, c, status) \in Run
  BY DEF Recorded, Run
<1> QED
  BY <1>1, <1>2, <1>3, <1>4, <1>5, <1>6

LEMMA BecomesRun ==
    ASSUME NEW a \in Run, NEW b, Becomes(a, b)
    PROVE  b \in Run
<1>1. [a EXCEPT !.cancel = "requested"] \in Run
  BY DEF Run
<1>2. \A beat \in {"fresh", "stale"} : [a EXCEPT !.beat = beat] \in Run
  BY DEF Run
<1>3. [a EXCEPT !.evidence = TRUE, !.beat = "fresh"] \in Run
  BY DEF Run
<1> QED
  BY <1>1, <1>2, <1>3, RowForms, Zenon DEF Becomes

(***************************************************************************)
(* A finished row keeps its case results, and its outcome turns into       *)
(* cleanup-failed or stays.                                                *)
(***************************************************************************)
LEMMA BecomesFinal ==
    ASSUME NEW a \in Run, NEW b, Becomes(a, b), a.state \in Outcomes, b.state # "none"
    PROVE  b.cases = a.cases /\ b.state \in {a.state, "cleanup-failed"}
<1>1. ASSUME NEW to, CanTransition(a, to)
      PROVE  /\ Moved(a, to).cases = a.cases
             /\ Moved(a, to).state \in {a.state, "cleanup-failed"}
  BY <1>1 DEF Run, Moved, CanTransition, TRANSITIONS, Outcomes
<1>2. CanTransition(a, "cancelled") => /\ Acknowledged(a).cases = a.cases
                                      /\ Acknowledged(a).state = a.state
  BY DEF Run, Acknowledged, Moved, CanTransition, TRANSITIONS, Outcomes
<1>3. \A to \in CleanupStates : /\ CleanedUp(a, to).cases = a.cases
                               /\ CleanedUp(a, to).state \in {a.state, "cleanup-failed"}
  BY DEF Run, CleanedUp, Moved
<1>4. \A c \in Cases : ~ CanRecord(a, c)
  BY DEF CanRecord, Outcomes, Phases
<1>5. a.state # "none" /\ NoRun.state = "none"
  BY DEF Outcomes, NoRun
<1>6. CASE b = a \/ b = [a EXCEPT !.cancel = "requested"]
  BY <1>6 DEF Run
<1>7. CASE \/ \E beat \in {"fresh", "stale"} : b = [a EXCEPT !.beat = beat]
           \/ b = [a EXCEPT !.evidence = TRUE, !.beat = "fresh"]
  BY <1>7 DEF Run
<1> QED
  BY <1>1, <1>2, <1>3, <1>4, <1>5, <1>6, <1>7 DEF Becomes

(***************************************************************************)
(* A row with a failed cleanup is a cleanup-failed row.                    *)
(***************************************************************************)
LEMMA BecomesShown ==
    ASSUME NEW a \in Run, NEW b, Becomes(a, b),
           a.cleanup = "failed" => a.state = "cleanup-failed", b.cleanup = "failed"
    PROVE  b.state = "cleanup-failed"
<1>1. ASSUME NEW to, CanTransition(a, to), Moved(a, to).cleanup = "failed"
      PROVE  Moved(a, to).state = "cleanup-failed"
  BY <1>1 DEF Run, Moved, CanTransition, TRANSITIONS, CleanupAfter, Outcomes
<1>2. CanTransition(a, "cancelled") /\ Acknowledged(a).cleanup = "failed"
      => Acknowledged(a).state = "cleanup-failed"
  BY DEF Run, Acknowledged, Moved, CanTransition, TRANSITIONS, CleanupAfter, Outcomes
<1>3. \A to \in CleanupStates :
         CleanedUp(a, to).cleanup = "failed" => CleanedUp(a, to).state = "cleanup-failed"
  BY DEF Run, CleanedUp, Moved, CleanupAfter
<1>4. \A c, status : /\ Recorded(a, c, status).cleanup = a.cleanup
                     /\ Recorded(a, c, status).state = a.state
  BY DEF Run, Recorded
<1>5. NoRun.cleanup # "failed" /\ Launched.cleanup # "failed"
  BY DEF NoRun, Launched
<1>6. CASE b = a \/ b = [a EXCEPT !.cancel = "requested"]
  BY <1>6 DEF Run
<1>7. CASE \/ \E beat \in {"fresh", "stale"} : b = [a EXCEPT !.beat = beat]
           \/ b = [a EXCEPT !.evidence = TRUE, !.beat = "fresh"]
  BY <1>7 DEF Run
<1> QED
  BY <1>1, <1>2, <1>3, <1>4, <1>5, <1>6, <1>7 DEF Becomes

(***************************************************************************)
(* Only a claim makes a run active, or moves it to provisioning.           *)
(***************************************************************************)
LEMMA BecomesActive ==
    ASSUME NEW a \in Run, NEW b, Becomes(a, b), b.state \in ActivePhases
    PROVE  a.state \in ActivePhases
<1>1. ASSUME NEW to, CanTransition(a, to), to # "provisioning", Moved(a, to).state \in ActivePhases
      PROVE  a.state \in ActivePhases
  BY <1>1 DEF Run, Moved, CanTransition, TRANSITIONS, ActivePhases, Outcomes, Endings
<1>2. CanTransition(a, "cancelled") => Acknowledged(a).state \notin ActivePhases
  BY DEF Run, Acknowledged, Moved, ActivePhases
<1>3. \A to \in CleanupStates : CleanedUp(a, to).state \in {a.state, "cleanup-failed"}
  BY DEF Run, CleanedUp, Moved
<1>4. \A c, status : Recorded(a, c, status).state = a.state
  BY DEF Run, Recorded
<1>5. NoRun.state = "none" /\ Launched.state = "queued"
  BY DEF NoRun, Launched
<1>6. {"none", "queued", "cleanup-failed"} \cap ActivePhases = {}
  BY DEF ActivePhases
<1>7. CASE b = a \/ b = [a EXCEPT !.cancel = "requested"]
  BY <1>7 DEF Run
<1>8. CASE \/ \E beat \in {"fresh", "stale"} : b = [a EXCEPT !.beat = beat]
           \/ b = [a EXCEPT !.evidence = TRUE, !.beat = "fresh"]
  BY <1>8 DEF Run
<1> QED
  BY <1>1, <1>2, <1>3, <1>4, <1>5, <1>6, <1>7, <1>8 DEF Becomes

-----------------------------------------------------------------------------
(***************************************************************************)
(* Every row changes as Becomes allows, in a ledger of the right type.     *)
(***************************************************************************)
RowsLegal == runs' \in [Runs -> Run] /\ \A q \in Runs : Becomes(runs[q], runs'[q])

LEMMA SetRunLegal ==
    ASSUME RunsTypeOK, NEW r \in Runs, NEW b, SetRun(r, b), Becomes(runs[r], b)
    PROVE  RowsLegal
<1>1. b \in Run
  BY BecomesRun DEF RunsTypeOK
<1>2. \A q \in Runs : runs'[q] = IF q = r THEN b ELSE runs[q]
  BY DEF SetRun, RunsTypeOK
<1>3. \A q \in Runs : Becomes(runs[q], runs[q])
  BY DEF Becomes
<1> QED
  BY <1>1, <1>2, <1>3 DEF RowsLegal, SetRun, RunsTypeOK

LEMMA SameRowsLegal ==
    ASSUME RunsTypeOK, UNCHANGED runs
    PROVE  RowsLegal
  BY DEF RowsLegal, RunsTypeOK, Becomes

(***************************************************************************)
(* The fields a worker has at each point of runNext.                       *)
(***************************************************************************)
LEMMA WorkerFields ==
    ASSUME TypeOK, NEW w \in Workers
    PROVE  /\ wrk[w].pc # "idle" => wrk[w].run \in Runs
           /\ wrk[w].pc = "supervise" => wrk[w].attempt \in 1..MaxAttempts
           /\ wrk[w].pc = "write" => wrk[w].to \in {"cancelled", "blocked", "timed-out", "failed"}
<1>1. wrk[w] \in WorkerStates
  BY DEF TypeOK
<1> QED
  BY <1>1 DEF WorkerStates, Idle

(***************************************************************************)
(* The states a worker and an executor are put into are of their types.    *)
(***************************************************************************)
LEMMA WorkerForms ==
    /\ Idle \in WorkerStates
    /\ \A r \in Runs : /\ [pc |-> "inspect", run |-> r] \in WorkerStates
                       /\ [pc |-> "reread", run |-> r] \in WorkerStates
    /\ \A r \in Runs, n \in 1..MaxAttempts :
          [pc |-> "supervise", run |-> r, attempt |-> n] \in WorkerStates
    /\ \A r \in Runs, to \in {"cancelled", "blocked", "timed-out", "failed"} :
          [pc |-> "write", run |-> r, to |-> to] \in WorkerStates
  BY DEF WorkerStates

LEMMA ExecForms ==
    /\ NoExec \in ExecStates
    /\ \A w \in Workers : [pc |-> "start", by |-> w] \in ExecStates
    /\ \A e \in ExecStates, p \in ExecPoints : e.pc # "none" => [e EXCEPT !.pc = p] \in ExecStates
<1>1. NoExec \in ExecStates
  BY DEF ExecStates
<1>2. \A w \in Workers : [pc |-> "start", by |-> w] \in ExecStates
  BY DEF ExecStates, ExecPoints
<1>3. ASSUME NEW e \in ExecStates, NEW p \in ExecPoints, e.pc # "none"
      PROVE  [e EXCEPT !.pc = p] \in ExecStates
  <2>1. e \in [pc : ExecPoints, by : Workers]
    BY <1>3 DEF ExecStates, NoExec
  <2> QED
    BY <2>1 DEF ExecStates
<1> QED
  BY <1>1, <1>2, <1>3

LEMMA GotoTyped ==
    ASSUME exec \in [Runs -> ExecStates], NEW r \in Runs, NEW p \in ExecPoints,
           exec[r].pc # "none", Goto(r, p)
    PROVE  exec' \in [Runs -> ExecStates]
  BY ExecForms DEF Goto

LEMMA DecideTyped ==
    ASSUME TypeOK, NEW w \in Workers, wrk[w].pc # "idle",
           NEW to \in {"cancelled", "blocked", "timed-out", "failed"}, Decide(w, to)
    PROVE  wrk' \in [Workers -> WorkerStates]
  BY WorkerFields, WorkerForms DEF Decide, TypeOK

LEMMA SuperviseTyped ==
    ASSUME TypeOK, NEW w \in Workers, NEW r \in Runs, NEW n \in 1..MaxAttempts, Supervise(w, r, n)
    PROVE  wrk' \in [Workers -> WorkerStates] /\ exec' \in [Runs -> ExecStates]
  BY WorkerForms, ExecForms DEF Supervise, TypeOK

(***************************************************************************)
(* The steps of the service, of a worker and of an executor, one by one.   *)
(***************************************************************************)
Typed == TypeOK' /\ RowsLegal

LEMMA LaunchTyped ==
    ASSUME TypeOK, NEW r \in Runs, Launch(r)
    PROVE  Typed
<1>1. RowsLegal
  <2>1. Becomes(runs[r], Launched)
    BY DEF Launch, Becomes
  <2> QED
    BY <2>1, SetRunLegal DEF Launch, TypeOK
<1> QED
  BY <1>1 DEF Launch, TypeOK, Typed, RunsTypeOK, RowsLegal

LEMMA ServiceTyped ==
    ASSUME TypeOK, NEW r \in Runs,
           CancelRead(r) \/ CancelWrite(r) \/ TimePasses(r) \/ Purge(r)
    PROVE  Typed
<1>1. CASE CancelRead(r)
  <2>1. RowsLegal
    BY <1>1, SameRowsLegal DEF CancelRead, TypeOK
  <2> QED
    BY <1>1, <2>1 DEF CancelRead, TypeOK, Typed, RunsTypeOK, RowsLegal
<1>2. CASE CancelWrite(r)
  <2>1. RowsLegal
    <3>1. CASE runs[r].state # "none" /\ runs[r].cancel = "none"
      <4>1. Becomes(runs[r], [runs[r] EXCEPT !.cancel = "requested"])
        BY <3>1 DEF Becomes
      <4> QED
        BY <1>2, <3>1, <4>1, SetRunLegal DEF CancelWrite, TypeOK
    <3>2. CASE ~ (runs[r].state # "none" /\ runs[r].cancel = "none")
      BY <1>2, <3>2, SameRowsLegal DEF CancelWrite, TypeOK
    <3> QED
      BY <3>1, <3>2
  <2> QED
    BY <1>2, <2>1 DEF CancelWrite, TypeOK, Typed, RunsTypeOK, RowsLegal
<1>3. CASE TimePasses(r)
  <2>1. RowsLegal
    <3>1. Becomes(runs[r], [runs[r] EXCEPT !.beat = "stale"])
      BY DEF Becomes
    <3> QED
      BY <1>3, <3>1, SetRunLegal DEF TimePasses, GoStale, TypeOK
  <2> QED
    BY <1>3, <2>1 DEF TimePasses, TypeOK, Typed, RunsTypeOK, RowsLegal
<1>4. CASE Purge(r)
  <2>1. RowsLegal
    <3>1. Becomes(runs[r], NoRun)
      BY <1>4 DEF Becomes, Purge
    <3> QED
      BY <1>4, <3>1, SetRunLegal DEF Purge, TypeOK
  <2>2. exec' \in [Runs -> ExecStates]
    BY <1>4, ExecForms DEF Purge, TypeOK
  <2> QED
    BY <1>4, <2>1, <2>2 DEF Purge, TypeOK, Typed, RunsTypeOK, RowsLegal
<1> QED
  BY <1>1, <1>2, <1>3, <1>4

LEMMA RecoverTyped ==
    ASSUME TypeOK, NEW found \in SUBSET Runs, Recover(found)
    PROVE  Typed
<1>1. \A q \in found : CanTransition(runs[q], "timed-out")
  <2>1. \A p \in Phases : p # "none" /\ "timed-out" \in TRANSITIONS(p)
    BY DEF TRANSITIONS, Phases, Endings, Outcomes
  <2> QED
    BY <2>1 DEF Recover, StaleRuns, CanTransition
<1>2. \A q \in Runs : runs'[q] = IF q \in found THEN Moved(runs[q], "timed-out") ELSE runs[q]
  BY DEF Recover, RecoverStaleRuns
<1>3. "timed-out" \in (Phases \cup Outcomes) \ {"queued", "provisioning"}
  BY DEF Outcomes
<1>4. \A q \in Runs : Becomes(runs[q], runs'[q])
  BY <1>1, <1>2, <1>3 DEF Becomes
<1>5. \A q \in Runs : runs'[q] \in Run
  BY <1>4, BecomesRun DEF TypeOK, RunsTypeOK
<1>6. RowsLegal
  BY <1>4, <1>5 DEF RowsLegal, Recover, RecoverStaleRuns
<1> QED
  BY <1>6 DEF Recover, TypeOK, Typed, RunsTypeOK, RowsLegal

LEMMA ClaimTyped ==
    ASSUME TypeOK, NEW w \in Workers, Claim(w)
    PROVE  TypeOK'
<1>1. PICK r \in Runs : /\ SetRun(r, Moved(runs[r], "provisioning"))
                        /\ wrk' = [wrk EXCEPT ![w] = [pc |-> "inspect", run |-> r]]
                        /\ UNCHANGED <<older, asking, exec, broken, faults>>
  BY DEF Claim
<1>2. Moved(runs[r], "provisioning") \in Run
  BY RowForms DEF Phases, TypeOK, RunsTypeOK
<1> QED
  BY <1>1, <1>2, WorkerForms DEF TypeOK, RunsTypeOK, SetRun

LEMMA WorkTyped ==
    ASSUME TypeOK, NEW w \in Workers,
           \/ Inspect(w) \/ Heartbeat(w) \/ HeartbeatFails(w) \/ TimeOut(w)
           \/ ExecutorSettles(w) \/ Reread(w) \/ WriteOutcome(w)
           \/ PassFails(w) \/ Crash(w)
    PROVE  Typed
<1> USE WorkerFields
<1> DEFINE r == wrk[w].run
<1>1. CASE Inspect(w)
  <2>1. r \in Runs /\ wrk[w].pc # "idle" /\ 1 \in 1..MaxAttempts
    BY <1>1, MaxAttemptsAssumption DEF Inspect
  <2>2. RowsLegal
    BY <1>1, SameRowsLegal DEF Inspect, TypeOK
  <2>3. wrk' \in [Workers -> WorkerStates] /\ exec' \in [Runs -> ExecStates]
    <3>1. CASE Decide(w, "cancelled") /\ UNCHANGED exec
      BY <2>1, <3>1, DecideTyped DEF TypeOK
    <3>2. CASE Decide(w, "blocked") /\ UNCHANGED exec
      BY <2>1, <3>2, DecideTyped DEF TypeOK
    <3>3. CASE Supervise(w, r, 1)
      BY <2>1, <3>3, SuperviseTyped
    <3> QED
      BY <1>1, <3>1, <3>2, <3>3 DEF Inspect
  <2> QED
    BY <1>1, <2>2, <2>3 DEF Inspect, TypeOK, Typed, RunsTypeOK, RowsLegal
<1>2. CASE Heartbeat(w)
  <2>1. r \in Runs /\ wrk[w].pc # "idle"
    BY <1>2 DEF Heartbeat
  <2>2. Becomes(runs[r], Beaten(runs[r]))
    BY DEF Becomes, Beaten
  <2>3. RowsLegal
    BY <1>2, <2>1, <2>2, SetRunLegal DEF Heartbeat, TypeOK
  <2>4. wrk' \in [Workers -> WorkerStates]
    BY <1>2, <2>1, DecideTyped DEF Heartbeat, TypeOK
  <2> QED
    BY <1>2, <2>3, <2>4 DEF Heartbeat, TypeOK, Typed, RunsTypeOK, RowsLegal
<1>3. CASE HeartbeatFails(w) \/ TimeOut(w)
  <2>1. wrk[w].pc # "idle"
    BY <1>3 DEF HeartbeatFails, TimeOut
  <2>2. RowsLegal
    BY <1>3, SameRowsLegal DEF HeartbeatFails, TimeOut, TypeOK
  <2>3. wrk' \in [Workers -> WorkerStates]
    BY <1>3, <2>1, DecideTyped DEF HeartbeatFails, TimeOut
  <2> QED
    BY <1>3, <2>2, <2>3 DEF HeartbeatFails, TimeOut, TypeOK, Typed, RunsTypeOK, RowsLegal
<1>4. CASE ExecutorSettles(w)
  <2>1. r \in Runs /\ wrk[w].pc # "idle" /\ wrk[w].attempt \in 1..MaxAttempts
    BY <1>4 DEF ExecutorSettles
  <2>2. CASE /\ wrk' = [wrk EXCEPT ![w] = [pc |-> "reread", run |-> r]]
             /\ UNCHANGED <<runs, exec>>
    <3>1. RowsLegal
      BY <2>2, SameRowsLegal DEF TypeOK
    <3> QED
      BY <1>4, <2>1, <2>2, <3>1, WorkerForms
      DEF ExecutorSettles, TypeOK, Typed, RunsTypeOK, RowsLegal
  <2>3. CASE /\ MayRetry(w)
             /\ SetRun(r, Beaten(runs[r]))
             /\ Supervise(w, r, wrk[w].attempt + 1)
    <3>1. Becomes(runs[r], Beaten(runs[r]))
      BY DEF Becomes, Beaten
    <3>2. RowsLegal
      BY <2>1, <2>3, <3>1, SetRunLegal DEF TypeOK
    <3>3. wrk[w].attempt + 1 \in 1..MaxAttempts
      BY <2>1, <2>3, MaxAttemptsAssumption DEF MayRetry
    <3>4. wrk' \in [Workers -> WorkerStates] /\ exec' \in [Runs -> ExecStates]
      BY <2>1, <2>3, <3>3, SuperviseTyped
    <3> QED
      BY <1>4, <3>2, <3>4 DEF ExecutorSettles, TypeOK, Typed, RunsTypeOK, RowsLegal
  <2>4. CASE Decide(w, "failed") /\ UNCHANGED <<runs, exec>>
    <3>1. RowsLegal
      BY <2>4, SameRowsLegal DEF TypeOK
    <3>2. wrk' \in [Workers -> WorkerStates]
      BY <2>1, <2>4, DecideTyped
    <3> QED
      BY <1>4, <2>4, <3>1, <3>2 DEF ExecutorSettles, TypeOK, Typed, RunsTypeOK, RowsLegal
  <2> QED
    BY <1>4, <2>2, <2>3, <2>4 DEF ExecutorSettles
<1>5. CASE Reread(w)
  <2>1. r \in Runs /\ wrk[w].pc # "idle"
    BY <1>5 DEF Reread
  <2>2. RowsLegal
    BY <1>5, SameRowsLegal DEF Reread, TypeOK
  <2>3. RereadTo(r) \subseteq {"cancelled", "failed"}
    BY DEF RereadTo
  <2>4. wrk' \in [Workers -> WorkerStates]
    BY <1>5, <2>1, <2>3, DecideTyped, WorkerForms DEF Reread, TypeOK
  <2> QED
    BY <1>5, <2>2, <2>4 DEF Reread, TypeOK, Typed, RunsTypeOK, RowsLegal
<1>6. CASE WriteOutcome(w)
  <2>1. r \in Runs /\ wrk[w].to \in {"cancelled", "blocked", "timed-out", "failed"}
    BY <1>6 DEF WriteOutcome
  <2>2. wrk[w].to \in (Phases \cup Outcomes) \ {"queued", "provisioning"}
    BY <2>1 DEF Outcomes
  <2>3. CanTransition(runs[r], wrk[w].to)
        => Becomes(runs[r], IF wrk[w].to = "cancelled" THEN Acknowledged(runs[r])
                                                       ELSE Moved(runs[r], wrk[w].to))
    BY <2>1, <2>2 DEF Becomes
  <2>4. RowsLegal
    BY <1>6, <2>1, <2>3, SetRunLegal, SameRowsLegal DEF WriteOutcome, TypeOK
  <2> QED
    BY <1>6, <2>4, WorkerForms DEF WriteOutcome, TypeOK, Typed, RunsTypeOK, RowsLegal
<1>7. CASE Crash(w)
  <2>1. RowsLegal
    BY <1>7, SameRowsLegal DEF Crash, TypeOK
  <2>2. faults' \in 0..MaxFaults
    BY <1>7, MaxFaultsAssumption DEF Crash, Fault, TypeOK
  <2>3. exec' \in [Runs -> ExecStates]
    BY <1>7, ExecForms DEF Crash, TypeOK
  <2> QED
    BY <1>7, <2>1, <2>2, <2>3, WorkerForms DEF Crash, TypeOK, Typed, RunsTypeOK, RowsLegal
<1>8. CASE PassFails(w)
  <2>1. RowsLegal
    BY <1>8, SameRowsLegal DEF PassFails, TypeOK
  <2>2. faults' \in 0..MaxFaults
    BY <1>8, MaxFaultsAssumption DEF PassFails, Fault, TypeOK
  <2> QED
    BY <1>8, <2>1, <2>2, WorkerForms DEF PassFails, TypeOK, Typed, RunsTypeOK, RowsLegal
<1> QED
  BY <1>1, <1>2, <1>3, <1>4, <1>5, <1>6, <1>7, <1>8

(***************************************************************************)
(* One report of an executor: whatever the row, a legal one and a known    *)
(* next point.                                                             *)
(***************************************************************************)
LEMMA ReportTyped ==
    ASSUME TypeOK, NEW r \in Runs, NEW accepted, NEW b,
           NEW ok \in ExecPoints, NEW otherwise \in ExecPoints,
           exec[r].pc # "none", accepted => Becomes(runs[r], b),
           Report(r, accepted, b, ok, otherwise)
    PROVE  Typed
<1>1. RowsLegal
  BY SetRunLegal, SameRowsLegal DEF Report, TypeOK
<1>2. exec' \in [Runs -> ExecStates]
  BY GotoTyped DEF Report, TypeOK
<1> QED
  BY <1>1, <1>2 DEF Report, TypeOK, Typed, RunsTypeOK, RowsLegal

LEMMA AdvanceTyped ==
    ASSUME TypeOK, NEW r \in Runs, NEW at \in ExecPoints,
           NEW to \in (Phases \cup Outcomes) \ {"queued", "provisioning"},
           NEW ok \in ExecPoints, NEW otherwise \in ExecPoints,
           Advance(r, at, to, ok, otherwise)
    PROVE  Typed
<1>1. exec[r].pc # "none"
  BY DEF Advance, ExecPoints
<1>2. CanTransition(runs[r], to) => Becomes(runs[r], Moved(runs[r], to))
  BY DEF Becomes
<1> QED
  BY <1>1, <1>2, ReportTyped DEF Advance

LEMMA RecordCleanupTyped ==
    ASSUME TypeOK, NEW r \in Runs, NEW at \in ExecPoints, NEW to \in CleanupStates,
           NEW ok \in ExecPoints, NEW otherwise \in ExecPoints,
           RecordCleanup(r, at, to, ok, otherwise)
    PROVE  Typed
<1>1. exec[r].pc # "none"
  BY DEF RecordCleanup, ExecPoints
<1>2. CanClean(runs[r], to) => Becomes(runs[r], CleanedUp(runs[r], to))
  BY DEF Becomes
<1> QED
  BY <1>1, <1>2, ReportTyped DEF RecordCleanup

(***************************************************************************)
(* A non-empty set of cases has a first one.                               *)
(***************************************************************************)
LEMMA NextCaseFound ==
    ASSUME NEW r, Unrecorded(r) # {}
    PROVE  NextCase(r) \in Unrecorded(r)
<1> DEFINE less == {ss \in Nat \X Nat : ss[1] < ss[2]}
<1>1. Unrecorded(r) \subseteq Nat
  BY NumCasesAssumption DEF Unrecorded, Cases
<1>2. IsWellFoundedOn(less, Nat)
  BY NatLessThanWellFounded, Zenon DEF OpToRel
<1>3. \E c \in Unrecorded(r) : \A d \in Unrecorded(r) : ~ (<<d, c>> \in less)
  <2> HIDE DEF less
  <2> QED
    BY <1>1, <1>2, WFMin
<1>4. PICK c \in Unrecorded(r) : \A d \in Unrecorded(r) : ~ (<<d, c>> \in less)
  BY <1>3
<1>5. ASSUME NEW d \in Unrecorded(r) PROVE c <= d
  <2>1. c \in Nat /\ d \in Nat /\ ~ (<<d, c>> \in less)
    BY <1>1, <1>4
  <2>2. ~ (d < c)
    BY <2>1
  <2> QED
    BY <2>1, <2>2
<1> QED
  BY <1>5 DEF NextCase

LEMMA ExecuteTyped ==
    ASSUME TypeOK, NEW r \in Runs, Execute(r)
    PROVE  Typed
<1>1. CASE ExecStart(r)
  <2>1. RowsLegal
    BY <1>1, SameRowsLegal DEF ExecStart, TypeOK
  <2>2. exec' \in [Runs -> ExecStates]
    <3>1. PICK p \in {"evidence", "block", "retry"} : Goto(r, p)
      BY <1>1 DEF ExecStart
    <3>2. p \in ExecPoints /\ exec[r].pc # "none"
      BY <1>1 DEF ExecPoints, ExecStart
    <3> QED
      BY <3>1, <3>2, GotoTyped DEF TypeOK
  <2> QED
    BY <1>1, <2>1, <2>2 DEF ExecStart, TypeOK, Typed, RunsTypeOK, RowsLegal
<1>2. CASE ExecBlock(r)
  <2>1. exec[r].pc # "none" /\ {"returned", "threw", "block"} \subseteq ExecPoints
    BY <1>2 DEF ExecBlock, ExecPoints
  <2>2. CASE Unrecorded(r) = {}
    <3>1. CanTransition(runs[r], "blocked") => Becomes(runs[r], Moved(runs[r], "blocked"))
      BY DEF Becomes, Outcomes
    <3> QED
      BY <1>2, <2>1, <2>2, <3>1, ReportTyped DEF ExecBlock
  <2>3. CASE Unrecorded(r) # {}
    <3>1. NextCase(r) \in Cases
      BY <2>3, NextCaseFound DEF Unrecorded
    <3>2. CanRecord(runs[r], NextCase(r))
          => Becomes(runs[r], Recorded(runs[r], NextCase(r), "blocked"))
      BY <3>1 DEF Becomes
    <3> QED
      BY <1>2, <2>1, <2>3, <3>2, ReportTyped DEF ExecBlock
  <2> QED
    BY <2>2, <2>3
<1>3. CASE ExecEvidence(r)
  <2>1. exec[r].pc # "none" /\ {"begin", "threw"} \subseteq ExecPoints
    BY <1>3 DEF ExecEvidence, ExecPoints
  <2>2. Becomes(runs[r], [runs[r] EXCEPT !.evidence = TRUE, !.beat = "fresh"])
    BY DEF Becomes
  <2> QED
    BY <1>3, <2>1, <2>2, ReportTyped DEF ExecEvidence
<1>4. CASE ExecCase(r)
  <2>1. exec[r].pc # "none" /\ {"failing", "collect", "case"} \subseteq ExecPoints
    BY <1>4 DEF ExecCase, ExecPoints
  <2>2. NextCase(r) \in Cases
    BY <1>4, NextCaseFound DEF ExecCase, Unrecorded
  <2>3. PICK status \in {"passed", "failed"} :
           Report(r, CanRecord(runs[r], NextCase(r)),
                  Recorded(runs[r], NextCase(r), status), AfterCase(r, status), "failing")
    BY <1>4 DEF ExecCase
  <2>4. CanRecord(runs[r], NextCase(r)) => Becomes(runs[r], Recorded(runs[r], NextCase(r), status))
    BY <2>2 DEF Becomes
  <2>5. AfterCase(r, status) \in ExecPoints
    BY <2>1 DEF AfterCase
  <2> QED
    BY <2>1, <2>3, <2>4, <2>5, ReportTyped
<1>5. CASE \/ ExecBegin(r) \/ ExecCollect(r) \/ ExecClean(r) \/ ExecPass(r) \/ ExecFail(r)
           \/ ExecWorst(r)
  <2>1. {"running", "collecting", "cleaning", "passed", "failed", "cleanup-failed"}
          \subseteq (Phases \cup Outcomes) \ {"queued", "provisioning"}
    BY DEF Phases, Outcomes
  <2>2. {"begin", "case", "threw", "collect", "sweep", "failing", "clean", "close", "pass",
         "returned", "fail", "worse", "worst"} \subseteq ExecPoints
    BY DEF ExecPoints
  <2> QED
    BY <1>5, <2>1, <2>2, AdvanceTyped, Zenon
    DEF ExecBegin, ExecCollect, ExecClean, ExecPass, ExecFail, ExecWorst
<1>6. CASE ExecSweep(r) \/ ExecClose(r) \/ ExecFailing(r) \/ ExecWorse(r)
  <2>1. {"running", "succeeded", "failed"} \subseteq CleanupStates
    BY DEF CleanupStates
  <2>2. {"sweep", "clean", "close", "pass", "failing", "fail", "worse", "worst", "threw"}
          \subseteq ExecPoints
    BY DEF ExecPoints
  <2> QED
    BY <1>6, <2>1, <2>2, RecordCleanupTyped, Zenon DEF ExecSweep, ExecClose, ExecFailing, ExecWorse
<1>7. CASE CloseFails(r)
  <2>1. RowsLegal
    BY <1>7, SameRowsLegal DEF CloseFails, TypeOK
  <2>2. exec' \in [Runs -> ExecStates]
    <3>1. exec[r].pc # "none" /\ {"failing", "worse"} \subseteq ExecPoints
      BY <1>7 DEF CloseFails, ExecPoints
    <3> QED
      BY <1>7, <3>1, GotoTyped DEF CloseFails, TypeOK
  <2> QED
    BY <1>7, <2>1, <2>2 DEF CloseFails, TypeOK, Typed, RunsTypeOK, RowsLegal
<1> QED
  BY <1>1, <1>2, <1>3, <1>4, <1>5, <1>6, <1>7 DEF Execute
-----------------------------------------------------------------------------
(***************************************************************************)
(* A step is a claim, leaves everything alone, or changes rows legally.    *)
(***************************************************************************)
LEMMA StepTyped ==
    ASSUME TypeOK, [Next]_vars
    PROVE  TypeOK' /\ (RowsLegal \/ \E w \in Workers : Claim(w))
<1>1. CASE UNCHANGED vars
  <2>1. RowsLegal
    BY <1>1, SameRowsLegal DEF vars, TypeOK
  <2> QED
    BY <1>1, <2>1 DEF vars, TypeOK, RunsTypeOK
<1>2. CASE Next
  <2>1. CASE \E r \in Runs : Launch(r)
    BY <2>1, LaunchTyped DEF Typed
  <2>2. CASE \E r \in Runs : CancelRead(r) \/ CancelWrite(r) \/ TimePasses(r) \/ Purge(r)
    BY <2>2, ServiceTyped DEF Typed
  <2>3. CASE \E r, new \in Runs : Retry(r, new)
    BY <2>3, LaunchTyped DEF Typed, Retry
  <2>4. CASE \E found \in SUBSET Runs : Recover(found)
    BY <2>4, RecoverTyped DEF Typed
  <2>5. CASE \E w \in Workers : Claim(w)
    BY <2>5, ClaimTyped
  <2>6. CASE \E w \in Workers :
               \/ Inspect(w) \/ Heartbeat(w) \/ HeartbeatFails(w) \/ TimeOut(w)
               \/ ExecutorSettles(w) \/ Reread(w) \/ WriteOutcome(w)
               \/ PassFails(w) \/ Crash(w)
    BY <2>6, WorkTyped DEF Typed
  <2>7. CASE \E r \in Runs : Execute(r)
    BY <2>7, ExecuteTyped DEF Typed
  <2> QED
    BY <1>2, <2>1, <2>2, <2>3, <2>4, <2>5, <2>6, <2>7 DEF Next, Work
<1> QED
  BY <1>1, <1>2

(***************************************************************************)
(* The type invariant holds for every set of runs and workers and every    *)
(* limit.                                                                  *)
(***************************************************************************)
THEOREM RunsTypeCorrect == Spec => []TypeOK
<1>1. Init => TypeOK
  BY RowForms, WorkerForms, ExecForms, MaxFaultsAssumption
  DEF Init, RunsInit, TypeOK, RunsTypeOK
<1>2. TypeOK /\ [Next]_vars => TypeOK'
  BY StepTyped
<1> QED
  BY <1>1, <1>2, PTL DEF Spec

(***************************************************************************)
(* A claim takes the oldest queued run to provisioning, no other row.      *)
(***************************************************************************)
LEMMA ClaimedRow ==
    ASSUME TypeOK, NEW w \in Workers, Claim(w)
    PROVE  \E r \in Runs :
             /\ HasSlot /\ OldestQueued(r)
             /\ runs'[r].state = "provisioning" /\ runs'[r].cases = runs[r].cases
             /\ runs'[r].cleanup = runs[r].cleanup
             /\ \A q \in Runs \ {r} : runs'[q] = runs[q]
<1>1. PICK r \in Runs : HasSlot /\ OldestQueued(r) /\ SetRun(r, Moved(runs[r], "provisioning"))
  BY DEF Claim
<1>2. runs[r] \in Run /\ runs[r].state = "queued"
  BY <1>1 DEF TypeOK, RunsTypeOK, OldestQueued
<1>3. runs'[r] = Moved(runs[r], "provisioning") /\ \A q \in Runs \ {r} : runs'[q] = runs[q]
  BY <1>1 DEF SetRun, TypeOK, RunsTypeOK
<1>4. /\ Moved(runs[r], "provisioning").state = "provisioning"
      /\ Moved(runs[r], "provisioning").cases = runs[r].cases
      /\ Moved(runs[r], "provisioning").cleanup = runs[r].cleanup
  BY <1>2 DEF Run, Moved, CleanupAfter
<1> QED
  BY <1>1, <1>3, <1>4

(***************************************************************************)
(* The results of a finished run are immutable, whichever executor of the  *)
(* run is still alive.                                                     *)
(***************************************************************************)
THEOREM RunsFinal == Spec => FinishedIsFinal
<1> DEFINE A == \A r \in Runs :
                  runs[r].state \in Outcomes /\ runs'[r].state # "none"
                  => /\ runs'[r].cases = runs[r].cases
                     /\ runs'[r].state \in {runs[r].state, "cleanup-failed"}
<1>1. TypeOK /\ [Next]_vars => A
  <2> SUFFICES ASSUME TypeOK, [Next]_vars, NEW r \in Runs,
                      runs[r].state \in Outcomes, runs'[r].state # "none"
               PROVE  /\ runs'[r].cases = runs[r].cases
                      /\ runs'[r].state \in {runs[r].state, "cleanup-failed"}
    OBVIOUS
  <2>1. CASE RowsLegal
    BY <2>1, BecomesFinal DEF RowsLegal, TypeOK, RunsTypeOK
  <2>2. CASE \E w \in Workers : Claim(w)
    <3>1. PICK q \in Runs : OldestQueued(q) /\ \A p \in Runs \ {q} : runs'[p] = runs[p]
      BY <2>2, ClaimedRow
    <3>2. r # q
      BY <3>1 DEF OldestQueued, Outcomes
    <3> QED
      BY <3>1, <3>2
  <2> QED
    BY <2>1, <2>2, StepTyped
<1>2. TypeOK /\ [Next]_vars => [A]_vars
  BY <1>1
<1> QED
  BY <1>2, RunsTypeCorrect, PTL DEF Spec, FinishedIsFinal

(***************************************************************************)
(* A failed cleanup is always shown, whoever recorded it and whatever the  *)
(* run's outcome was.                                                      *)
(***************************************************************************)
THEOREM RunsCleanupShown == Spec => []CleanupFailureShown
<1>1. Init => CleanupFailureShown
  BY DEF Init, RunsInit, NoRun, CleanupFailureShown
<1>2. TypeOK /\ CleanupFailureShown /\ [Next]_vars => CleanupFailureShown'
  <2> SUFFICES ASSUME TypeOK, CleanupFailureShown, [Next]_vars, NEW r \in Runs,
                      runs'[r].cleanup = "failed"
               PROVE  runs'[r].state = "cleanup-failed"
    BY DEF CleanupFailureShown
  <2>1. CASE RowsLegal
    BY <2>1, BecomesShown DEF RowsLegal, TypeOK, RunsTypeOK, CleanupFailureShown
  <2>2. CASE \E w \in Workers : Claim(w)
    <3>1. PICK q \in Runs : /\ OldestQueued(q) /\ runs'[q].cleanup = runs[q].cleanup
                            /\ \A p \in Runs \ {q} : runs'[p] = runs[p]
      BY <2>2, ClaimedRow
    <3>2. runs[q].cleanup # "failed"
      BY <3>1 DEF OldestQueued, CleanupFailureShown
    <3> QED
      BY <3>1, <3>2 DEF CleanupFailureShown
  <2> QED
    BY <2>1, <2>2, StepTyped
<1> QED
  BY <1>1, <1>2, RunsTypeCorrect, PTL DEF Spec

(***************************************************************************)
(* The concurrency cap holds for any number of worker processes.           *)
(***************************************************************************)
THEOREM RunsCapped == Spec => []CapRespected
<1>1. Init => CapRespected
  <2>1. Init => Active = {}
    BY DEF Init, RunsInit, NoRun, Active, ActivePhases
  <2> QED
    BY <2>1, FS_EmptySet, MaxConcurrentRunsAssumption DEF CapRespected
<1>2. TypeOK /\ CapRespected /\ [Next]_vars => CapRespected'
  <2> SUFFICES ASSUME TypeOK, CapRespected, [Next]_vars
               PROVE  CapRespected'
    OBVIOUS
  <2>1. IsFiniteSet(Active) /\ Cardinality(Active) \in Nat
    <3>1. Active \in SUBSET Runs
      BY DEF Active
    <3> QED
      BY <3>1, RunsAssumption, FS_Subset, FS_CardinalityType
  <2>2. CASE RowsLegal
    <3>1. Active' \in SUBSET Active
      BY <2>2, BecomesActive DEF Active, RowsLegal, TypeOK, RunsTypeOK
    <3>2. Cardinality(Active') <= Cardinality(Active)
      BY <2>1, <3>1, FS_Subset
    <3>3. Cardinality(Active') \in Nat
      BY <2>1, <3>1, FS_Subset, FS_CardinalityType
    <3> QED
      BY <2>1, <3>2, <3>3, MaxConcurrentRunsAssumption DEF CapRespected
  <2>3. CASE \E w \in Workers : Claim(w)
    <3>1. PICK r \in Runs : HasSlot /\ \A q \in Runs \ {r} : runs'[q] = runs[q]
      BY <2>3, ClaimedRow
    <3>2. Active' \in SUBSET (Active \cup {r})
      BY <3>1 DEF Active
    <3>3. IsFiniteSet(Active \cup {r}) /\ Cardinality(Active \cup {r}) <= Cardinality(Active) + 1
      BY <2>1, FS_AddElement
    <3>4. /\ Cardinality(Active') <= Cardinality(Active \cup {r})
          /\ Cardinality(Active') \in Nat /\ Cardinality(Active \cup {r}) \in Nat
      BY <3>2, <3>3, FS_Subset, FS_CardinalityType
    <3> QED
      BY <2>1, <3>1, <3>3, <3>4, MaxConcurrentRunsAssumption DEF CapRespected, HasSlot
  <2> QED
    BY <2>2, <2>3, StepTyped
<1> QED
  BY <1>1, <1>2, RunsTypeCorrect, PTL DEF Spec

-----------------------------------------------------------------------------
(***************************************************************************)
(* What worker and executor keep for each other.  A run is untouched until *)
(* a worker has inspected it, one worker has it, and where its executor    *)
(* stands tells what has been recorded: a run passes only at the end of    *)
(* this chain, so a pass needs all of it.                                  *)
(***************************************************************************)
Untouched(r) == \A c \in Cases : runs[r].cases[c] = "not-run"

Waiting(r) == runs[r].state \in {"none", "queued"}

WaitingUntouched ==
    \A r \in Runs : Waiting(r) =>
        /\ exec[r].pc = "none" /\ Untouched(r)
        /\ \A w \in Workers : wrk[w].pc # "idle" => wrk[w].run # r

OneWorkerEach ==
    \A v, w \in Workers :
        wrk[v].pc # "idle" /\ wrk[w].pc # "idle" /\ wrk[v].run = wrk[w].run => v = w

InspectedUntouched ==
    \A w \in Workers : wrk[w].pc = "inspect" =>
        exec[wrk[w].run].pc = "none" /\ Untouched(wrk[w].run)

\* The points at which every case has passed.
AfterCases == {"collect", "sweep", "clean", "close", "pass"}

Recording(r) ==
    /\ exec[r].pc \in {"start", "retry", "evidence", "begin"} => Untouched(r)
    /\ exec[r].pc \in {"begin", "case"} \cup AfterCases => runs[r].evidence
    /\ exec[r].pc = "case" => \A c \in Cases : runs[r].cases[c] \in {"not-run", "passed"}
    /\ exec[r].pc \in AfterCases => \A c \in Cases : runs[r].cases[c] = "passed"
    /\ exec[r].pc = "pass" /\ runs[r].state = "cleaning" => runs[r].cleanup = "succeeded"

PassedRow(r) ==
    runs[r].state = "passed"
        => /\ \A c \in Cases : runs[r].cases[c] = "passed"
           /\ runs[r].evidence
           /\ runs[r].cleanup = "succeeded"

Inv ==
    /\ WaitingUntouched
    /\ OneWorkerEach
    /\ InspectedUntouched
    /\ \A r \in Runs : Recording(r)
    /\ \A r \in Runs : PassedRow(r)

(***************************************************************************)
(* A write that records nothing: the service, a worker's closing write.    *)
(***************************************************************************)
Quiet(a, b) ==
    /\ b.cases = a.cases /\ b.evidence = a.evidence
    /\ b.state \in {"none", "queued", "cleaning", "passed"} => b.state = a.state
    /\ b.state \in {"cleaning", "passed"} => b.cleanup = a.cleanup

LEMMA QuietWrites ==
    ASSUME NEW a \in Run
    PROVE  /\ Quiet(a, a)
           /\ Quiet(a, [a EXCEPT !.cancel = "requested"])
           /\ \A beat : Quiet(a, [a EXCEPT !.beat = beat])
           /\ Quiet(a, Beaten(a))
           /\ \A to \in {"blocked", "timed-out", "failed"} : Quiet(a, Moved(a, to))
           /\ Quiet(a, Acknowledged(a))
<1>1. Quiet(a, a)
  BY DEF Quiet
<1>2. Quiet(a, [a EXCEPT !.cancel = "requested"])
  BY DEF Quiet, Run
<1>3. \A beat : Quiet(a, [a EXCEPT !.beat = beat])
  BY DEF Quiet, Run
<1>4. Quiet(a, Beaten(a))
  BY <1>1, <1>3 DEF Beaten
<1>5. ASSUME NEW to \in {"blocked", "timed-out", "failed"} PROVE Quiet(a, Moved(a, to))
  BY DEF Quiet, Run, Moved
<1>6. Quiet(a, Acknowledged(a))
  BY DEF Quiet, Run, Acknowledged, Moved
<1> QED
  BY <1>1, <1>2, <1>3, <1>4, <1>5, <1>6

(***************************************************************************)
(* Quiet writes keep the invariant while executors stay where they are or  *)
(* die and workers go on with the runs they have, or let go of them.       *)
(***************************************************************************)
LEMMA QuietKeeps ==
    ASSUME TypeOK, Inv, \A r \in Runs : Quiet(runs[r], runs'[r]),
           \A r \in Runs : exec'[r] = exec[r] \/ exec'[r] = NoExec,
           \A w \in Workers : \/ wrk'[w].pc = "idle"
                              \/ /\ wrk[w].pc # "idle" /\ wrk'[w].run = wrk[w].run
                                 /\ wrk'[w].pc = "inspect" => wrk[w].pc = "inspect"
    PROVE  Inv'
<1>1. \A r \in Runs : Untouched(r) => Untouched(r)'
  BY DEF Quiet, Untouched
<1>2. \A r \in Runs : exec[r].pc = "none" => exec'[r].pc = "none"
  BY DEF NoExec
<1>3. \A r \in Runs : Waiting(r)' => Waiting(r)
  BY DEF Waiting, Quiet
<1>4. WaitingUntouched'
  BY <1>1, <1>2, <1>3 DEF Inv, WaitingUntouched
<1>5. OneWorkerEach'
  BY DEF Inv, OneWorkerEach
<1>6. InspectedUntouched'
  <2> SUFFICES ASSUME NEW w \in Workers, wrk'[w].pc = "inspect"
               PROVE  exec'[wrk'[w].run].pc = "none" /\ Untouched(wrk[w].run)'
    BY DEF InspectedUntouched, Untouched
  <2>1. wrk[w].pc = "inspect" /\ wrk'[w].run = wrk[w].run /\ wrk[w].run \in Runs
    BY WorkerFields
  <2> QED
    BY <1>1, <1>2, <2>1 DEF Inv, InspectedUntouched, Untouched
<1>7. ASSUME NEW r \in Runs PROVE Recording(r)'
  <2>1. CASE exec'[r] = NoExec
    BY <2>1 DEF Recording, NoExec, AfterCases
  <2>2. CASE exec'[r] = exec[r]
    BY <1>1, <2>2 DEF Inv, Recording, Quiet
  <2> QED
    BY <2>1, <2>2
<1>8. ASSUME NEW r \in Runs PROVE PassedRow(r)'
  BY DEF Inv, PassedRow, Quiet
<1> QED
  BY <1>4, <1>5, <1>6, <1>7, <1>8 DEF Inv

(***************************************************************************)
(* A step of the executor of r keeps the invariant when it keeps what is   *)
(* said of r.                                                              *)
(***************************************************************************)
LEMMA ExecKeeps ==
    ASSUME TypeOK, Inv, NEW r \in Runs, exec[r].pc # "none", UNCHANGED wrk,
           \A q \in Runs \ {r} : runs'[q] = runs[q] /\ exec'[q] = exec[q],
           ~ Waiting(r)', Recording(r)', PassedRow(r)'
    PROVE  Inv'
<1>1. WaitingUntouched'
  BY DEF Inv, WaitingUntouched, Waiting, Untouched
<1>2. OneWorkerEach'
  BY DEF Inv, OneWorkerEach
<1>3. InspectedUntouched'
  BY WorkerFields DEF Inv, InspectedUntouched, Untouched
<1>4. \A q \in Runs : Recording(q)' /\ PassedRow(q)'
  BY DEF Inv, Recording, PassedRow, Untouched
<1> QED
  BY <1>1, <1>2, <1>3, <1>4 DEF Inv

LEMMA LaunchKeeps ==
    ASSUME TypeOK, Inv, NEW r \in Runs, Launch(r)
    PROVE  Inv'
<1>1. /\ runs'[r] = Launched /\ \A q \in Runs \ {r} : runs'[q] = runs[q]
      /\ exec' = exec /\ wrk' = wrk
  BY DEF Launch, SetRun, TypeOK, RunsTypeOK
<1>2. Waiting(r) /\ exec[r].pc = "none" /\ \A w \in Workers : wrk[w].pc # "idle" => wrk[w].run # r
  BY DEF Launch, Waiting, Inv, WaitingUntouched
<1>3. Untouched(r)' /\ runs'[r].state = "queued"
  BY <1>1 DEF Untouched, Launched, NoRun
<1>4. WaitingUntouched'
  BY <1>1, <1>2, <1>3 DEF Inv, WaitingUntouched, Waiting, Untouched
<1>5. OneWorkerEach'
  BY <1>1 DEF Inv, OneWorkerEach
<1>6. InspectedUntouched'
  BY <1>1, <1>2, WorkerFields DEF Inv, InspectedUntouched, Untouched
<1>7. \A q \in Runs : Recording(q)' /\ PassedRow(q)'
  <2>1. Recording(r)' /\ PassedRow(r)'
    BY <1>1, <1>2, <1>3 DEF Recording, PassedRow, AfterCases
  <2> QED
    BY <1>1, <2>1 DEF Inv, Recording, PassedRow, Untouched
<1> QED
  BY <1>4, <1>5, <1>6, <1>7 DEF Inv

LEMMA PurgeKeeps ==
    ASSUME TypeOK, Inv, NEW r \in Runs, Purge(r)
    PROVE  Inv'
<1>1. /\ runs'[r] = NoRun /\ exec'[r] = NoExec /\ wrk' = wrk
      /\ \A q \in Runs \ {r} : runs'[q] = runs[q] /\ exec'[q] = exec[q]
  BY DEF Purge, SetRun, TypeOK, RunsTypeOK
<1>2. \A w \in Workers : wrk[w].pc # "idle" => wrk[w].run # r
  BY DEF Purge
<1>3. Untouched(r)' /\ runs'[r].state = "none" /\ exec'[r].pc = "none"
  BY <1>1 DEF Untouched, NoRun, NoExec
<1>4. WaitingUntouched'
  BY <1>1, <1>2, <1>3 DEF Inv, WaitingUntouched, Waiting, Untouched
<1>5. OneWorkerEach'
  BY <1>1 DEF Inv, OneWorkerEach
<1>6. InspectedUntouched'
  BY <1>1, <1>2, WorkerFields DEF Inv, InspectedUntouched, Untouched
<1>7. \A q \in Runs : Recording(q)' /\ PassedRow(q)'
  <2>1. Recording(r)' /\ PassedRow(r)'
    BY <1>3 DEF Recording, PassedRow, AfterCases
  <2> QED
    BY <1>1, <2>1 DEF Inv, Recording, PassedRow, Untouched
<1> QED
  BY <1>4, <1>5, <1>6, <1>7 DEF Inv

LEMMA ClaimKeeps ==
    ASSUME TypeOK, Inv, NEW w \in Workers, Claim(w)
    PROVE  Inv'
<1>1. PICK r \in Runs : /\ wrk[w].pc = "idle" /\ OldestQueued(r)
                        /\ SetRun(r, Moved(runs[r], "provisioning"))
                        /\ wrk' = [wrk EXCEPT ![w] = [pc |-> "inspect", run |-> r]]
                        /\ exec' = exec
  BY DEF Claim
<1>2. runs[r] \in Run /\ Waiting(r)
  BY <1>1 DEF TypeOK, RunsTypeOK, OldestQueued, Waiting
<1>3. exec[r].pc = "none" /\ Untouched(r) /\ \A v \in Workers : wrk[v].pc # "idle" => wrk[v].run # r
  BY <1>2 DEF Inv, WaitingUntouched
<1>4. runs'[r] = Moved(runs[r], "provisioning") /\ \A q \in Runs \ {r} : runs'[q] = runs[q]
  BY <1>1 DEF SetRun, TypeOK, RunsTypeOK
<1>5. runs'[r].state = "provisioning" /\ runs'[r].cases = runs[r].cases
  BY <1>1, <1>2, <1>4 DEF Run, Moved
<1>6. /\ wrk'[w] = [pc |-> "inspect", run |-> r]
      /\ \A v \in Workers \ {w} : wrk'[v] = wrk[v]
  BY <1>1 DEF TypeOK
<1>7. WaitingUntouched'
  BY <1>1, <1>4, <1>5, <1>6 DEF Inv, WaitingUntouched, Waiting, Untouched
<1>8. OneWorkerEach'
  BY <1>3, <1>6 DEF Inv, OneWorkerEach
<1>9. InspectedUntouched'
  BY <1>1, <1>3, <1>4, <1>5, <1>6, WorkerFields DEF Inv, InspectedUntouched, Untouched
<1>10. \A q \in Runs : Recording(q)' /\ PassedRow(q)'
  <2>1. Recording(r)' /\ PassedRow(r)'
    BY <1>1, <1>3, <1>5 DEF Recording, PassedRow, AfterCases
  <2> QED
    BY <1>1, <1>4, <2>1 DEF Inv, Recording, PassedRow, Untouched
<1> QED
  BY <1>7, <1>8, <1>9, <1>10 DEF Inv

(***************************************************************************)
(* A new attempt starts on a run of which nothing is recorded.             *)
(***************************************************************************)
LEMMA SuperviseKeeps ==
    ASSUME TypeOK, Inv, NEW w \in Workers, wrk[w].pc # "idle", NEW n, NEW r, r = wrk[w].run,
           Supervise(w, r, n), Untouched(r), ~ Waiting(r),
           \A q \in Runs : Quiet(runs[q], runs'[q])
    PROVE  Inv'
<1>1. r \in Runs
  BY WorkerFields
<1>2. /\ wrk'[w] = [pc |-> "supervise", run |-> r, attempt |-> n]
      /\ \A v \in Workers \ {w} : wrk'[v] = wrk[v]
      /\ exec'[r] = [pc |-> "start", by |-> w]
      /\ \A q \in Runs \ {r} : exec'[q] = exec[q]
  BY <1>1 DEF Supervise, TypeOK
<1>3. \A q \in Runs : /\ Untouched(q) => Untouched(q)'
                      /\ Waiting(q)' => Waiting(q)
  BY DEF Quiet, Untouched, Waiting
<1>4. WaitingUntouched'
  BY <1>2, <1>3 DEF Inv, WaitingUntouched
<1>5. OneWorkerEach'
  BY <1>2 DEF Inv, OneWorkerEach
<1>6. InspectedUntouched'
  <2> SUFFICES ASSUME NEW v \in Workers, wrk'[v].pc = "inspect"
               PROVE  exec'[wrk'[v].run].pc = "none" /\ Untouched(wrk[v].run)'
    BY DEF InspectedUntouched, Untouched
  <2>1. v # w /\ wrk'[v] = wrk[v]
    BY <1>2
  <2>2. wrk[v].run \in Runs /\ wrk[v].run # r
    BY <2>1, WorkerFields DEF Inv, OneWorkerEach
  <2> QED
    BY <1>2, <1>3, <2>1, <2>2 DEF Inv, InspectedUntouched, Untouched
<1>7. ASSUME NEW q \in Runs PROVE Recording(q)'
  <2>1. CASE q = r
    BY <1>2, <1>3, <2>1 DEF Recording, AfterCases
  <2>2. CASE q # r
    BY <1>2, <1>3, <2>2 DEF Inv, Recording, Quiet
  <2> QED
    BY <2>1, <2>2
<1>8. \A q \in Runs : PassedRow(q)'
  BY DEF Inv, PassedRow, Quiet
<1> QED
  BY <1>4, <1>5, <1>6, <1>7, <1>8 DEF Inv

(***************************************************************************)
(* The service and the workers, but for launch, purge and claim.           *)
(***************************************************************************)
LEMMA ServiceKeeps ==
    ASSUME TypeOK, Inv,
           \/ \E r \in Runs : CancelRead(r) \/ CancelWrite(r) \/ TimePasses(r)
           \/ \E found \in SUBSET Runs : Recover(found)
    PROVE  Inv'
<1>1. \A r \in Runs : runs[r] \in Run
  BY DEF TypeOK, RunsTypeOK
<1>2. exec' = exec /\ wrk' = wrk
  BY DEF CancelRead, CancelWrite, TimePasses, Recover
<1>3. ASSUME NEW q \in Runs PROVE Quiet(runs[q], runs'[q])
  <2>1. CASE \E r \in Runs : CancelRead(r) \/ CancelWrite(r) \/ TimePasses(r)
    <3>1. \/ runs'[q] = runs[q]
          \/ runs'[q] = [runs[q] EXCEPT !.cancel = "requested"]
          \/ runs'[q] = [runs[q] EXCEPT !.beat = "stale"]
      BY <2>1 DEF CancelRead, CancelWrite, TimePasses, GoStale, SetRun, TypeOK, RunsTypeOK
    <3> QED
      BY <1>1, <3>1, QuietWrites
  <2>2. CASE \E found \in SUBSET Runs : Recover(found)
    <3>1. runs'[q] = runs[q] \/ runs'[q] = Moved(runs[q], "timed-out")
      BY <2>2 DEF Recover, RecoverStaleRuns
    <3> QED
      BY <1>1, <3>1, QuietWrites
  <2> QED
    BY <2>1, <2>2
<1> QED
  BY <1>2, <1>3, QuietKeeps

LEMMA WorkKeeps ==
    ASSUME TypeOK, Inv, NEW w \in Workers,
           \/ Inspect(w) \/ Heartbeat(w) \/ HeartbeatFails(w) \/ TimeOut(w)
           \/ ExecutorSettles(w) \/ Reread(w) \/ WriteOutcome(w)
           \/ PassFails(w) \/ Crash(w)
    PROVE  Inv'
<1> DEFINE r == wrk[w].run
           Stays == \A v \in Workers : \/ wrk'[v].pc = "idle"
                                       \/ /\ wrk[v].pc # "idle" /\ wrk'[v].run = wrk[v].run
                                          /\ wrk'[v].pc = "inspect" => wrk[v].pc = "inspect"
           Calm == \A q \in Runs : Quiet(runs[q], runs'[q])
<1>1. \A q \in Runs : runs[q] \in Run
  BY DEF TypeOK, RunsTypeOK
<1>2. UNCHANGED runs => Calm
  BY <1>1, QuietWrites
<1>3. r \in Runs /\ SetRun(r, Beaten(runs[r])) => Calm
  BY <1>1, QuietWrites DEF SetRun, TypeOK, RunsTypeOK
<1>4. \A to : wrk[w].pc # "idle" /\ Decide(w, to) => Stays
  BY DEF Decide, TypeOK
<1>5. UNCHANGED wrk => Stays
  <2>1. \A v \in Workers : wrk[v].pc = "idle" \/ wrk[v].pc # "idle"
    OBVIOUS
  <2> QED
    BY <2>1
<1>6. wrk' = [wrk EXCEPT ![w] = Idle] => Stays
  BY DEF Idle, TypeOK
<1>7. wrk[w].pc # "idle" => r \in Runs
  BY WorkerFields
<1>8. wrk[w].pc # "idle" => ~ Waiting(r)
  BY <1>7 DEF Inv, WaitingUntouched
<1> HIDE DEF Stays, Calm
<1>9. Calm /\ Stays /\ UNCHANGED exec => Inv'
  BY QuietKeeps DEF Stays, Calm
<1>10. CASE Inspect(w)
  <2>1. wrk[w].pc # "idle" /\ UNCHANGED runs /\ Untouched(r)
    BY <1>10 DEF Inspect, Inv, InspectedUntouched
  <2>2. CASE (Decide(w, "cancelled") \/ Decide(w, "blocked")) /\ UNCHANGED exec
    BY <1>2, <1>4, <1>9, <2>1, <2>2
  <2>3. CASE Supervise(w, r, 1)
    BY <1>2, <1>8, <2>1, <2>3, SuperviseKeeps DEF Calm
  <2> QED
    BY <1>10, <2>2, <2>3 DEF Inspect
<1>11. CASE Heartbeat(w)
  BY <1>3, <1>4, <1>5, <1>7, <1>9, <1>11 DEF Heartbeat
<1>12. CASE HeartbeatFails(w) \/ TimeOut(w)
  BY <1>2, <1>4, <1>9, <1>12 DEF HeartbeatFails, TimeOut
<1>13. CASE ExecutorSettles(w)
  <2>1. wrk[w].pc # "idle" /\ r \in Runs
    BY <1>7, <1>13 DEF ExecutorSettles
  <2>2. CASE wrk' = [wrk EXCEPT ![w] = [pc |-> "reread", run |-> r]] /\ UNCHANGED <<runs, exec>>
    <3>1. Stays
      BY <2>1, <2>2 DEF Stays, TypeOK
    <3> QED
      BY <1>2, <1>9, <2>2, <3>1
  <2>3. CASE /\ exec[r].pc = "retry" /\ SetRun(r, Beaten(runs[r]))
             /\ Supervise(w, r, wrk[w].attempt + 1)
    <3>1. Untouched(r)
      BY <2>1, <2>3 DEF Inv, Recording
    <3> QED
      BY <1>3, <1>8, <2>1, <2>3, <3>1, SuperviseKeeps DEF Calm
  <2>4. CASE Decide(w, "failed") /\ UNCHANGED <<runs, exec>>
    BY <1>2, <1>4, <1>9, <2>1, <2>4
  <2> QED
    BY <1>13, <2>2, <2>3, <2>4 DEF ExecutorSettles
<1>14. CASE Reread(w)
  BY <1>2, <1>4, <1>6, <1>9, <1>14 DEF Reread
<1>15. CASE WriteOutcome(w)
  <2>1. r \in Runs /\ wrk[w].to \in {"cancelled", "blocked", "timed-out", "failed"}
    BY <1>15, WorkerFields DEF WriteOutcome
  <2>2. \A q \in Runs : \/ runs'[q] = runs[q]
                        \/ runs'[q] = Acknowledged(runs[q])
                        \/ \E to \in {"blocked", "timed-out", "failed"} : runs'[q] = Moved(runs[q], to)
    BY <1>15, <2>1 DEF WriteOutcome, SetRun, TypeOK, RunsTypeOK
  <2>3. Calm
    BY <1>1, <2>2, QuietWrites DEF Calm
  <2> QED
    BY <1>6, <1>9, <1>15, <2>3 DEF WriteOutcome
<1>16. CASE Crash(w)
  <2>1. Calm /\ Stays
    BY <1>2, <1>6, <1>16 DEF Crash
  <2>2. \A q \in Runs : exec'[q] = exec[q] \/ exec'[q] = NoExec
    BY <1>16 DEF Crash
  <2> QED
    BY <2>1, <2>2, QuietKeeps DEF Calm, Stays
<1>17. CASE PassFails(w)
  BY <1>2, <1>6, <1>9, <1>17 DEF PassFails
<1> QED
  BY <1>10, <1>11, <1>12, <1>13, <1>14, <1>15, <1>16, <1>17

-----------------------------------------------------------------------------
(***************************************************************************)
(* A report: refused, it leads to a point of which nothing is said;        *)
(* accepted, what is said of the new point must hold of the new row.       *)
(***************************************************************************)
LEMMA ReportKeeps ==
    ASSUME TypeOK, Inv, NEW r \in Runs, exec[r].pc # "none",
           NEW accepted \in BOOLEAN, NEW b, NEW ok, NEW otherwise \in {"failing", "threw", "worse"},
           Report(r, accepted, b, ok, otherwise),
           accepted => b.state \notin {"none", "queued"},
           accepted /\ runs'[r] = b /\ exec'[r].pc = ok => Recording(r)' /\ PassedRow(r)'
    PROVE  Inv'
<1>1. exec[r] \in [pc : ExecPoints, by : Workers]
  BY DEF TypeOK, ExecStates, NoExec
<1>2. UNCHANGED wrk /\ \A q \in Runs \ {r} : runs'[q] = runs[q] /\ exec'[q] = exec[q]
  BY DEF Report, Goto, SetRun, TypeOK, RunsTypeOK
<1>3. CASE accepted
  <2>1. runs'[r] = b /\ exec'[r].pc = ok
    BY <1>1, <1>3 DEF Report, Goto, SetRun, TypeOK, RunsTypeOK
  <2>2. ~ Waiting(r)'
    BY <1>3, <2>1 DEF Waiting
  <2> QED
    BY <1>2, <1>3, <2>1, <2>2, ExecKeeps
<1>4. CASE ~ accepted
  <2>1. runs' = runs /\ exec'[r].pc = otherwise
    BY <1>1, <1>4 DEF Report, Goto, TypeOK
  <2>2. Recording(r)'
    BY <2>1 DEF Recording, AfterCases
  <2>3. PassedRow(r)'
    BY <2>1 DEF Inv, PassedRow
  <2>4. ~ Waiting(r)'
    BY <2>1 DEF Inv, WaitingUntouched, Waiting
  <2> QED
    BY <1>2, <2>2, <2>3, <2>4, ExecKeeps
<1> QED
  BY <1>3, <1>4

(***************************************************************************)
(* What the reports make of the fields the invariant is about.             *)
(***************************************************************************)
LEMMA MovedFields ==
    ASSUME NEW a \in Run, NEW to, to # "timed-out", to # "cleanup-failed"
    PROVE  /\ Moved(a, to).state = to
           /\ Moved(a, to).cases = a.cases /\ Moved(a, to).evidence = a.evidence
           /\ Moved(a, to).cleanup = a.cleanup
  BY DEF Run, Moved, CleanupAfter

LEMMA CleanedFields ==
    ASSUME NEW a \in Run, NEW to, to # "failed"
    PROVE  /\ CleanedUp(a, to).state = a.state /\ CleanedUp(a, to).cleanup = to
           /\ CleanedUp(a, to).cases = a.cases /\ CleanedUp(a, to).evidence = a.evidence
  BY DEF Run, CleanedUp

LEMMA RecordedFields ==
    ASSUME NEW a \in Run, NEW c \in Cases, NEW status
    PROVE  /\ Recorded(a, c, status).state = a.state
           /\ Recorded(a, c, status).evidence = a.evidence
           /\ Recorded(a, c, status).cases[c] = status
           /\ \A d \in Cases \ {c} : Recorded(a, c, status).cases[d] = a.cases[d]
  BY DEF Run, Recorded

(***************************************************************************)
(* The legal moves into the two states the invariant speaks of.            *)
(***************************************************************************)
LEMMA MovesTo ==
    ASSUME NEW a \in Run
    PROVE  /\ CanTransition(a, "passed") => a.state \in {"cleaning", "passed"}
           /\ \A to \in {"collecting", "running", "cleaning", "blocked", "failed", "cleanup-failed"} :
                 CanTransition(a, to) => a.state # "none"
<1>1. CanTransition(a, "passed") => a.state \in {"cleaning", "passed"}
  BY DEF CanTransition, TRANSITIONS, Run, Outcomes, Endings, Phases
<1> QED
  BY <1>1 DEF CanTransition

LEMMA ExecuteKeeps ==
    ASSUME TypeOK, Inv, NEW r \in Runs, Execute(r)
    PROVE  Inv'
<1> DEFINE a == runs[r]
<1>1. a \in Run
  BY DEF TypeOK, RunsTypeOK
<1>2. exec[r].pc # "none" => a.state \notin {"none", "queued"}
  BY DEF Inv, WaitingUntouched, Waiting
<1>3. Recording(r) /\ PassedRow(r)
  BY DEF Inv
<1>4. \A to, c : /\ CanTransition(a, to) \in BOOLEAN /\ CanClean(a, to) \in BOOLEAN
                 /\ CanRecord(a, c) \in BOOLEAN
  BY DEF CanTransition, CanClean, CanRecord
<1>5. CASE ExecStart(r)
  <2>1. exec[r] \in [pc : ExecPoints, by : Workers] /\ exec[r].pc = "start"
    BY <1>5 DEF ExecStart, TypeOK, ExecStates, NoExec
  <2>2. /\ exec'[r].pc \in {"evidence", "block", "retry"} /\ runs' = runs
        /\ UNCHANGED wrk /\ \A q \in Runs \ {r} : exec'[q] = exec[q]
    BY <1>5, <2>1 DEF ExecStart, Goto, TypeOK
  <2>3. Recording(r)' /\ PassedRow(r)' /\ ~ Waiting(r)'
    BY <1>2, <1>3, <2>1, <2>2 DEF Recording, PassedRow, Waiting, Untouched, AfterCases
  <2> QED
    BY <2>1, <2>2, <2>3, ExecKeeps
<1>6. CASE ExecBlock(r)
  <2>1. exec[r].pc # "none"
    BY <1>6 DEF ExecBlock
  <2>2. CASE Unrecorded(r) = {}
    <3>1. runs'[r] = Moved(a, "blocked") /\ exec'[r].pc = "returned"
          => Recording(r)' /\ PassedRow(r)'
      BY <1>1, MovedFields DEF Recording, PassedRow, AfterCases
    <3> QED
      BY <1>1, <1>4, <1>6, <2>1, <2>2, <3>1, MovedFields, ReportKeeps DEF ExecBlock
  <2>3. CASE Unrecorded(r) # {}
    <3>1. NextCase(r) \in Cases
      BY <2>3, NextCaseFound DEF Unrecorded
    <3> DEFINE b == Recorded(a, NextCase(r), "blocked")
    <3>2. b.state = a.state
      BY <1>1, <3>1, RecordedFields
    <3>3. CanRecord(a, NextCase(r)) => a.state # "passed"
      BY DEF CanRecord, Phases
    <3>4. CanRecord(a, NextCase(r)) /\ runs'[r] = b /\ exec'[r].pc = "block"
          => Recording(r)' /\ PassedRow(r)'
      BY <3>2, <3>3 DEF Recording, PassedRow, AfterCases
    <3> HIDE DEF b
    <3>5. Report(r, CanRecord(a, NextCase(r)), b, "block", "threw")
      BY <1>6, <2>3 DEF ExecBlock, b
    <3> QED
      BY <1>2, <1>4, <2>1, <3>2, <3>4, <3>5, ReportKeeps
  <2> QED
    BY <2>2, <2>3
<1>7. CASE ExecEvidence(r)
  <2> DEFINE b == [a EXCEPT !.evidence = TRUE, !.beat = "fresh"]
  <2>1. exec[r].pc = "evidence" /\ Report(r, ~ a.evidence, b, "begin", "threw")
    BY <1>7 DEF ExecEvidence
  <2>2. b.state = a.state /\ b.cases = a.cases /\ b.cleanup = a.cleanup /\ b.evidence = TRUE
    BY <1>1 DEF Run
  <2> HIDE DEF b
  <2>3. runs'[r] = b /\ exec'[r].pc = "begin" => Recording(r)' /\ PassedRow(r)'
    BY <1>3, <2>1, <2>2 DEF Recording, PassedRow, Untouched, AfterCases
  <2>4. (~ a.evidence) \in BOOLEAN
    OBVIOUS
  <2> QED
    BY <1>2, <2>1, <2>2, <2>3, <2>4, ReportKeeps
<1>8. CASE ExecBegin(r)
  <2> DEFINE b == Moved(a, "running")
  <2>1. exec[r].pc = "begin" /\ Report(r, CanTransition(a, "running"), b, "case", "threw")
    BY <1>8 DEF ExecBegin, Advance
  <2>2. b.state = "running" /\ b.cases = a.cases /\ b.evidence = a.evidence
    BY <1>1, MovedFields
  <2> HIDE DEF b
  <2>3. runs'[r] = b /\ exec'[r].pc = "case" => Recording(r)' /\ PassedRow(r)'
    BY <1>3, <2>1, <2>2 DEF Recording, PassedRow, Untouched, AfterCases
  <2> QED
    BY <1>4, <2>1, <2>2, <2>3, ReportKeeps
<1>9. CASE ExecCase(r)
  <2>1. exec[r].pc = "case" /\ NextCase(r) \in Unrecorded(r)
    BY <1>9, NextCaseFound DEF ExecCase
  <2>2. NextCase(r) \in Cases
    BY <2>1 DEF Unrecorded
  <2>3. PICK status \in {"passed", "failed"} :
           Report(r, CanRecord(a, NextCase(r)),
                  Recorded(a, NextCase(r), status), AfterCase(r, status), "failing")
    BY <1>9 DEF ExecCase
  <2> DEFINE b == Recorded(a, NextCase(r), status)
  <2>4. /\ b.state = a.state /\ b.evidence = a.evidence /\ b.cases[NextCase(r)] = status
        /\ \A d \in Cases \ {NextCase(r)} : b.cases[d] = a.cases[d]
    BY <1>1, <2>2, RecordedFields
  <2>5. Cardinality(Unrecorded(r)) = 1 => Unrecorded(r) = {NextCase(r)}
    <3>1. IsFiniteSet(Cases)
      BY FS_Interval, NumCasesAssumption DEF Cases
    <3>2. IsFiniteSet(Unrecorded(r))
      BY <3>1, FS_Subset DEF Unrecorded
    <3>3. Cardinality(Unrecorded(r)) = 1 => \E x : Unrecorded(r) = {x}
      BY <3>2, FS_Singleton
    <3> QED
      BY <2>1, <3>3
  <2>6. CanRecord(a, NextCase(r)) => a.state # "passed"
    BY DEF CanRecord, Phases
  <2>7. /\ a.evidence
        /\ \A c \in Cases : a.cases[c] \in {"not-run", "passed"}
    BY <1>3, <2>1 DEF Recording
  <2>8. \A c \in Cases \ Unrecorded(r) : a.cases[c] = "passed"
    BY <2>7 DEF Unrecorded
  <2> HIDE DEF b
  <2>9. CanRecord(a, NextCase(r)) /\ runs'[r] = b /\ exec'[r].pc = AfterCase(r, status)
        => Recording(r)' /\ PassedRow(r)'
    <3> SUFFICES ASSUME CanRecord(a, NextCase(r)), runs'[r] = b,
                        exec'[r].pc = AfterCase(r, status)
                 PROVE  Recording(r)' /\ PassedRow(r)'
      OBVIOUS
    <3>1. CASE status = "failed"
      BY <2>4, <2>6, <3>1 DEF AfterCase, Recording, PassedRow, AfterCases
    <3>2. CASE status = "passed" /\ Cardinality(Unrecorded(r)) = 1
      <4>1. exec'[r].pc = "collect"
        BY <3>2 DEF AfterCase
      <4>2. \A c \in Cases : b.cases[c] = "passed"
        BY <2>4, <2>5, <2>8, <3>2
      <4> QED
        BY <2>4, <2>6, <2>7, <4>1, <4>2 DEF Recording, PassedRow, AfterCases
    <3>3. CASE status = "passed" /\ Cardinality(Unrecorded(r)) # 1
      <4>1. exec'[r].pc = "case"
        BY <3>3 DEF AfterCase
      <4>2. \A c \in Cases : b.cases[c] \in {"not-run", "passed"}
        BY <2>4, <2>7, <3>3
      <4> QED
        BY <2>4, <2>6, <2>7, <4>1, <4>2 DEF Recording, PassedRow, AfterCases
    <3> QED
      BY <3>1, <3>2, <3>3
  <2>10. Report(r, CanRecord(a, NextCase(r)), b, AfterCase(r, status), "failing")
    BY <2>3 DEF b
  <2> QED
    BY <1>2, <1>4, <2>1, <2>4, <2>9, <2>10, ReportKeeps
<1>10. CASE ExecCollect(r)
  <2> DEFINE b == Moved(a, "collecting")
  <2>1. exec[r].pc = "collect" /\ Report(r, CanTransition(a, "collecting"), b, "sweep", "failing")
    BY <1>10 DEF ExecCollect, Advance
  <2>2. b.state = "collecting" /\ b.cases = a.cases /\ b.evidence = a.evidence
    BY <1>1, MovedFields
  <2> HIDE DEF b
  <2>3. runs'[r] = b /\ exec'[r].pc = "sweep" => Recording(r)' /\ PassedRow(r)'
    BY <1>3, <2>1, <2>2 DEF Recording, PassedRow, Untouched, AfterCases
  <2> QED
    BY <1>4, <2>1, <2>2, <2>3, ReportKeeps
<1>11. CASE ExecSweep(r)
  <2> DEFINE b == CleanedUp(a, "running")
  <2>1. exec[r].pc = "sweep" /\ Report(r, CanClean(a, "running"), b, "clean", "failing")
    BY <1>11 DEF ExecSweep, RecordCleanup
  <2>2. b.state = a.state /\ b.cases = a.cases /\ b.evidence = a.evidence
    BY <1>1, CleanedFields
  <2>3. CanClean(a, "running") => a.cleanup # "succeeded"
    BY DEF CanClean
  <2> HIDE DEF b
  <2>4. CanClean(a, "running") /\ runs'[r] = b /\ exec'[r].pc = "clean"
        => Recording(r)' /\ PassedRow(r)'
    BY <1>3, <2>1, <2>2, <2>3 DEF Recording, PassedRow, Untouched, AfterCases
  <2> QED
    BY <1>2, <1>4, <2>1, <2>2, <2>4, ReportKeeps
<1>12. CASE ExecClean(r)
  <2> DEFINE b == Moved(a, "cleaning")
  <2>1. exec[r].pc = "clean" /\ Report(r, CanTransition(a, "cleaning"), b, "close", "failing")
    BY <1>12 DEF ExecClean, Advance
  <2>2. b.state = "cleaning" /\ b.cases = a.cases /\ b.evidence = a.evidence
    BY <1>1, MovedFields
  <2> HIDE DEF b
  <2>3. runs'[r] = b /\ exec'[r].pc = "close" => Recording(r)' /\ PassedRow(r)'
    BY <1>3, <2>1, <2>2 DEF Recording, PassedRow, Untouched, AfterCases
  <2> QED
    BY <1>4, <2>1, <2>2, <2>3, ReportKeeps
<1>13. CASE ExecClose(r)
  <2> DEFINE b == CleanedUp(a, "succeeded")
  <2>1. exec[r].pc = "close" /\ Report(r, CanClean(a, "succeeded"), b, "pass", "failing")
    BY <1>13 DEF ExecClose, RecordCleanup
  <2>2. b.state = a.state /\ b.cases = a.cases /\ b.evidence = a.evidence /\ b.cleanup = "succeeded"
    BY <1>1, CleanedFields
  <2> HIDE DEF b
  <2>3. runs'[r] = b /\ exec'[r].pc = "pass" => Recording(r)' /\ PassedRow(r)'
    BY <1>3, <2>1, <2>2 DEF Recording, PassedRow, Untouched, AfterCases
  <2> QED
    BY <1>2, <1>4, <2>1, <2>2, <2>3, ReportKeeps
<1>14. CASE ExecPass(r)
  <2> DEFINE b == Moved(a, "passed")
  <2>1. exec[r].pc = "pass" /\ Report(r, CanTransition(a, "passed"), b, "returned", "failing")
    BY <1>14 DEF ExecPass, Advance
  <2>2. /\ b.state = "passed" /\ b.cases = a.cases /\ b.evidence = a.evidence
        /\ b.cleanup = a.cleanup
    BY <1>1, MovedFields
  <2>3. CanTransition(a, "passed") => a.state \in {"cleaning", "passed"}
    BY <1>1, MovesTo
  <2> HIDE DEF b
  <2>4. CanTransition(a, "passed") /\ runs'[r] = b /\ exec'[r].pc = "returned"
        => Recording(r)' /\ PassedRow(r)'
    BY <1>3, <2>1, <2>2, <2>3 DEF Recording, PassedRow, Untouched, AfterCases
  <2> QED
    BY <1>4, <2>1, <2>2, <2>4, ReportKeeps
<1>15. CASE ExecFailing(r)
  <2> DEFINE b == CleanedUp(a, "succeeded")
  <2>1. exec[r].pc = "failing" /\ Report(r, CanClean(a, "succeeded"), b, "fail", "worse")
    BY <1>15 DEF ExecFailing, RecordCleanup
  <2>2. b.state = a.state /\ b.cases = a.cases /\ b.evidence = a.evidence /\ b.cleanup = "succeeded"
    BY <1>1, CleanedFields
  <2> HIDE DEF b
  <2>3. runs'[r] = b /\ exec'[r].pc = "fail" => Recording(r)' /\ PassedRow(r)'
    BY <1>3, <2>2 DEF Recording, PassedRow, AfterCases
  <2> QED
    BY <1>2, <1>4, <2>1, <2>2, <2>3, ReportKeeps
<1>16. CASE ExecFail(r)
  <2> DEFINE b == Moved(a, "failed")
  <2>1. exec[r].pc = "fail" /\ Report(r, CanTransition(a, "failed"), b, "returned", "worse")
    BY <1>16 DEF ExecFail, Advance
  <2>2. b.state = "failed"
    BY <1>1, MovedFields
  <2> HIDE DEF b
  <2>3. runs'[r] = b /\ exec'[r].pc = "returned" => Recording(r)' /\ PassedRow(r)'
    BY <2>2 DEF Recording, PassedRow, AfterCases
  <2> QED
    BY <1>4, <2>1, <2>2, <2>3, ReportKeeps
<1>17. CASE ExecWorse(r)
  <2> DEFINE b == CleanedUp(a, "failed")
  <2>1. exec[r].pc = "worse" /\ Report(r, CanClean(a, "failed"), b, "worst", "threw")
    BY <1>17 DEF ExecWorse, RecordCleanup
  <2>2. b.state = "cleanup-failed"
    BY <1>1 DEF Run, CleanedUp, Moved
  <2> HIDE DEF b
  <2>3. runs'[r] = b /\ exec'[r].pc = "worst" => Recording(r)' /\ PassedRow(r)'
    BY <2>2 DEF Recording, PassedRow, AfterCases
  <2> QED
    BY <1>4, <2>1, <2>2, <2>3, ReportKeeps
<1>18. CASE ExecWorst(r)
  <2> DEFINE b == Moved(a, "cleanup-failed")
  <2>1. exec[r].pc = "worst" /\ Report(r, CanTransition(a, "cleanup-failed"), b, "returned", "threw")
    BY <1>18 DEF ExecWorst, Advance
  <2>2. b.state = "cleanup-failed"
    BY <1>1 DEF Run, Moved
  <2> HIDE DEF b
  <2>3. runs'[r] = b /\ exec'[r].pc = "returned" => Recording(r)' /\ PassedRow(r)'
    BY <2>2 DEF Recording, PassedRow, AfterCases
  <2> QED
    BY <1>4, <2>1, <2>2, <2>3, ReportKeeps
<1>19. CASE CloseFails(r)
  <2>1. exec[r] \in [pc : ExecPoints, by : Workers] /\ exec[r].pc # "none"
    BY <1>19 DEF CloseFails, TypeOK, ExecStates, NoExec
  <2>2. /\ exec'[r].pc \in {"failing", "worse"} /\ runs' = runs
        /\ UNCHANGED wrk /\ \A q \in Runs \ {r} : exec'[q] = exec[q]
    BY <1>19, <2>1 DEF CloseFails, Goto, TypeOK
  <2>3. Recording(r)' /\ PassedRow(r)' /\ ~ Waiting(r)'
    BY <1>2, <1>3, <2>1, <2>2 DEF Recording, PassedRow, Waiting, AfterCases
  <2> QED
    BY <2>1, <2>2, <2>3, ExecKeeps
<1> QED
  BY <1>5, <1>6, <1>7, <1>8, <1>9, <1>10, <1>11, <1>12, <1>13, <1>14, <1>15, <1>16, <1>17,
     <1>18, <1>19 DEF Execute

(***************************************************************************)
(* A run shown as passed has every case passed, its evidence recorded and  *)
(* its cleanup done, for every suite length, any number of workers and any *)
(* timeouts, cancellations, crashes, recoveries and retries.               *)
(***************************************************************************)
THEOREM RunsPassedMeansPassed == Spec => []PassedMeansPassed
<1>1. Init => Inv
  BY DEF Init, RunsInit, NoRun, Idle, NoExec, Inv, WaitingUntouched, OneWorkerEach,
         InspectedUntouched, Untouched, Waiting, Recording, PassedRow, AfterCases
<1>2. TypeOK /\ Inv /\ [Next]_vars => Inv'
  <2> SUFFICES ASSUME TypeOK, Inv, [Next]_vars
               PROVE  Inv'
    OBVIOUS
  <2>1. CASE UNCHANGED vars
    BY <2>1 DEF vars, Inv, WaitingUntouched, OneWorkerEach, InspectedUntouched, Untouched,
                Waiting, Recording, PassedRow
  <2>2. CASE \E r \in Runs : Launch(r)
    BY <2>2, LaunchKeeps
  <2>3. CASE \E r, new \in Runs : Retry(r, new)
    BY <2>3, LaunchKeeps DEF Retry
  <2>4. CASE \/ \E r \in Runs : CancelRead(r) \/ CancelWrite(r) \/ TimePasses(r)
             \/ \E found \in SUBSET Runs : Recover(found)
    BY <2>4, ServiceKeeps
  <2>5. CASE \E r \in Runs : Purge(r)
    BY <2>5, PurgeKeeps
  <2>6. CASE \E w \in Workers : Claim(w)
    BY <2>6, ClaimKeeps
  <2>7. CASE \E w \in Workers :
               \/ Inspect(w) \/ Heartbeat(w) \/ HeartbeatFails(w) \/ TimeOut(w)
               \/ ExecutorSettles(w) \/ Reread(w) \/ WriteOutcome(w)
               \/ PassFails(w) \/ Crash(w)
    BY <2>7, WorkKeeps
  <2>8. CASE \E r \in Runs : Execute(r)
    BY <2>8, ExecuteKeeps
  <2> QED
    BY <2>1, <2>2, <2>3, <2>4, <2>5, <2>6, <2>7, <2>8 DEF Next, Work
<1>3. Inv => PassedMeansPassed
  BY DEF Inv, PassedRow, PassedMeansPassed
<1> QED
  BY <1>1, <1>2, <1>3, RunsTypeCorrect, PTL DEF Spec
=============================================================================
