\* Two runs with two resources, two cleaners or reapers that overlap, one crash.
SPECIFICATION FixtureSpec
CONSTANTS
    r1 = r1
    r2 = r2
    c1 = c1
    c2 = c2
    Runs = {r1, r2}
    NumCases = 1
    NumResources = 2
    Cleaners = {c1, c2}
    MaxCrashes = 1
    LateProvision = FALSE
SYMMETRY Symmetric
INVARIANTS CleanMeansGone LeakShown
PROPERTIES ReleaseIsFinal
CHECK_DEADLOCK FALSE
