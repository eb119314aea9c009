\* Payment after checkout: no session is open while events and cancels are handled.
SPECIFICATION FairSpec
CONSTANTS
    s1 = s1
    s2 = s2
    r1 = r1
    Kinds = {"auction"}
    SessionsOf <- SettleSessions
    AmountsOf <- SettleAmounts
    CrashesOf <- SettleCrashes
    Entry = {"order"}
    Readers = {r1}
    MaxRevision = 0
    MaxEvents = 3
    CancelDies = FALSE
    Overlap = FALSE
PROPERTIES PaidIsFinal CancelledIsFinal ChargesSettle
CHECK_DEADLOCK FALSE
