\* One cart of one product with two calls at once, beside another source of the variant.
SPECIFICATION FairProductCartSpec
CONSTANTS
    c1 = c1
    k1 = k1
    v1 = v1
    x1 = x1
    x2 = x2
    Variants = {v1}
    Carts = {c1}
    Others = {k1}
    Keys <- AllKeys
    VariantOf <- MCVariantOf
    MaxUnits = 1
    SaveQuantities = {0}
    Contended <- AllKeys
    Calls = {x1, x2}
    MaxDeaths = 1
PROPERTIES KeepsPromise HoldsComeBack
