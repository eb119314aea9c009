\* Safety of two auctions on one item; the seller does not edit the lineup.
SPECIFICATION Spec
CONSTANTS
    a1 = a1
    a2 = a2
    cart = cart
    v1 = v1
    i1 = i1
    e1 = e1
    ann = ann
    bob = bob
    Variants = {v1}
    Keys <- AllKeys
    VariantOf <- MCVariantOf
    MaxUnits = 2
    SaveQuantities = {}
    Contended <- AllKeys
    Items = {i1}
    ProductOf <- MCProductOf
    Registrations <- FullRegistration
    Reregistrations = {}
    AdjustQuantities = {}
    Auctions = {a1, a2}
    ItemOf <- MCItemOf
    Events = {e1}
    EventOf <- MCEventOf
    Bidders = {ann, bob}
    NoBidder = NoBidder
    Requests = {1}
    MaxPrice = 3
SYMMETRY BidderSymmetry
INVARIANTS TypeOK AllocationMatchesLedger HoldFollowsLifecycle
    WinnerIsTopBidder BidCountedOnce LineupConserved NoOversell
CHECK_DEADLOCK FALSE
