CONSTANTS
    w1 = w1
    w2 = w2
    cny = cny
    usd = usd
    Currency = {cny, usd}
    Session = {s1, s2}
    Order = {o1}
    Shipment = {h1, h2}
    Supplier = {p1}
    Sku = {k1}
    Home = {w1}
    Abroad = {w2}
    Quantities = {1, 2}
    Loads = {1}
    Routes <- OutAndPaper
    Key = {y1}
    MaxPapers = 2
    MaxTransit = 2
    None = None
SPECIFICATION Spec
INVARIANTS OpenQuantitiesInTransit ReceiptsExplainStock PoolsWeighEverything SuppliersHold
SYMMETRY Alike
CHECK_DEADLOCK FALSE
