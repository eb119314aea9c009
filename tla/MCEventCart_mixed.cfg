\* An event-only cart beside a mixed one on one item, with lock queues and seller edits.
SPECIFICATION Spec
CONSTANTS
    c1 = c1
    c2 = c2
    i1 = i1
    i2 = i2
    v1 = v1
    v2 = v2
    Variants = {v1}
    Items = {i1}
    Carts = {c1, c2}
    Keys <- AllKeys
    VariantOf <- MCVariantOf
    ProductOf <- MCProductOf
    MaxUnits = 2
    SaveQuantities = {}
    Contended <- EventKeys
    Registrations <- PairRegistration
    Reregistrations = {}
    AdjustQuantities = {0}
    Mixed = {c2}
    Requests = {1}
INVARIANT ItemsBacked
PROPERTIES SalesAreFinal
CHECK_DEADLOCK FALSE
