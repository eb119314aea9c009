\* Two event-only carts on two items, no lock contention, the seller leaves the lineup alone.
SPECIFICATION FairSpec
CONSTANTS
    c1 = c1
    c2 = c2
    i1 = i1
    i2 = i2
    v1 = v1
    v2 = v2
    Variants = {v1, v2}
    Items = {i1, i2}
    Carts = {c1, c2}
    Keys <- AllKeys
    VariantOf <- MCVariantOf
    ProductOf <- MCProductOf
    MaxUnits = 2
    SaveQuantities = {}
    Contended = {}
    Registrations <- PairRegistration
    Reregistrations = {}
    AdjustQuantities = {}
    Mixed = {}
    Requests = {1, 2}
INVARIANTS TypeOK UnitsConserved NoOversell
PROPERTIES LapsedItemsLeave CommitTakesWholeCart
CHECK_DEADLOCK FALSE
