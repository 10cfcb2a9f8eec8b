CONSTANTS
    w1 = w1
    w2 = w2
    k1 = k1
    Session = {s1, s2}
    Warehouse = {w1, w2}
    Sku = {k1}
    Transfer = {t1, t2}
    Taking = {g1}
    Stock <- Reserved
    Quantities = {1}
    Counts = {0, 1}
    Adjustments <- OneOut
    MaxStock = 1
    Deletable = {w2}
    None = None
SPECIFICATION Spec
INVARIANTS DocumentsHold GoodsComeBack
CHECK_DEADLOCK FALSE
