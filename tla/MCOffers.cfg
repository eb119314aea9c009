\* Two sellers' requests and two buyers' requests at a time, one rollback, one crash.
SPECIFICATION Spec
CONSTANTS
    p1 = p1
    p2 = p2
    o1 = o1
    m1 = m1
    m2 = m2
    s2 = s2
    k1 = k1
    k2 = k2
    b1 = b1
    b2 = b2
    Products = {p1, p2}
    Commands = {o1, m1, m2, s2}
    Staged = {p1}
    Action <- Proposals
    Quantity <- OneUnit
    Reference <- References
    Policies <- TwoPolicies
    Opening <- GuardrailOn
    Returns = FALSE
    Repeated = {o1}
    Callers = {k1, k2}
    Clients = {b1, b2}
    MaxRollbacks = 1
    MaxCrashes = 1
    Orderly = TRUE
SYMMETRY Symmetric
INVARIANTS TypeOK UnitsNotInvented PricesGuarded HandoverIsSafe UndoneOnce
PROPERTIES NewerActionKept
CHECK_DEADLOCK FALSE
