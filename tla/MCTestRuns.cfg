\* Two runs and two worker processes for one slot: an abandoned executor of the first
\* run goes on beside the second run; one crash or store error, one retried attempt.
SPECIFICATION FairSpec
CONSTANTS
    r1 = r1
    r2 = r2
    w1 = w1
    w2 = w2
    Runs = {r1, r2}
    NumCases = 2
    Workers = {w1, w2}
    Serves <- OneInstalled
    MaxConcurrentRuns = 1
    MaxAttempts = 2
    MaxFaults = 1
    Disturbed = {r1}
INVARIANTS TypeOK CapRespected PassedMeansPassed
PROPERTIES FinishedIsFinal RunsEnd
CHECK_DEADLOCK FALSE
