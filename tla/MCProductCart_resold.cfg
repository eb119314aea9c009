\* A commit that dies before it empties the cart, or that a read overtakes.
SPECIFICATION ProductCartSpec
CONSTANTS
    c1 = c1
    k1 = k1
    v1 = v1
    x1 = x1
    x2 = x2
    Variants = {v1}
    Carts = {c1}
    Others = {k1}
    Keys <- AllKeys
    VariantOf <- MCVariantOf
    MaxUnits = 1
    SaveQuantities = {}
    Contended = {}
    Calls = {x1, x2}
    MaxDeaths = 1
PROPERTY PaidStaysSold
