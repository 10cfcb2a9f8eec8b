CONSTANTS
    w1 = w1
    w2 = w2
    k1 = k1
    Session = {s1, s2}
    Warehouse = {w1, w2}
    Sku = {k1}
    Transfer = {t1}
    Taking = {}
    Stock <- OnePiece
    Quantities = {1}
    Counts = {0, 1}
    Adjustments = {}
    MaxStock = 1
    Deletable = {w1}
    None = None
SPECIFICATION FairSpec
PROPERTY TransitSettles
CHECK_DEADLOCK FALSE
