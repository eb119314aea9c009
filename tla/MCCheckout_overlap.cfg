\* A winner's order, or an event cart that changes while its order is paid, under
\* every overlap of sessions, events and a crash.
SPECIFICATION Spec
CONSTANTS
    s1 = s1
    s2 = s2
    r1 = r1
    Kinds = {"auction", "event-cart"}
    SessionsOf <- OverlapSessions
    AmountsOf <- OverlapAmounts
    CrashesOf <- OverlapCrashes
    Entry = {"order", "source"}
    Readers = {r1}
    MaxRevision = 1
    MaxEvents = 2
    CancelDies = TRUE
    Overlap = TRUE
INVARIANTS PaidOrdersCommitted PaidInFull SalesAreCharged NothingPendingOverPaid
CHECK_DEADLOCK FALSE
