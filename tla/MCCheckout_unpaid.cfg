\* A session that was open when the order was paid.
SPECIFICATION Spec
CONSTANTS
    s1 = s1
    s2 = s2
    r1 = r1
    Kinds = {"auction"}
    SessionsOf <- SettleSessions
    AmountsOf <- SettleAmounts
    CrashesOf <- NoCrashes
    Entry = {"order"}
    Readers = {r1}
    MaxRevision = 0
    MaxEvents = 2
    CancelDies = TRUE
    Overlap = TRUE
PROPERTY PaidIsFinal
CHECK_DEADLOCK FALSE
