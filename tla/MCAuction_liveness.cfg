\* Seller edits of stock and lineup during the sale; readers keep polling.
SPECIFICATION FairSpec
CONSTANTS
    a1 = a1
    a2 = a2
    cart = cart
    v1 = v1
    i1 = i1
    e1 = e1
    ann = ann
    bob = bob
    Variants = {v1}
    Keys <- AllKeys
    VariantOf <- MCVariantOf
    MaxUnits = 1
    SaveQuantities = {1}
    Contended <- AllKeys
    Items = {i1}
    ProductOf <- MCProductOf
    Registrations <- UnitRegistration
    Reregistrations <- UnitRegistration
    AdjustQuantities = {0}
    Auctions = {a1, a2}
    ItemOf <- MCItemOf
    Events = {e1}
    EventOf <- MCEventOf
    Bidders = {ann, bob}
    NoBidder = NoBidder
    Requests = {1}
    MaxPrice = 2
PROPERTIES SettlementIsFinal EndedAuctionsClose WinnersGetOrders
CHECK_DEADLOCK FALSE
