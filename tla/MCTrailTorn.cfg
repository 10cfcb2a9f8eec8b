CONSTANTS
    b1 = b1
    b2 = b2
    Session = {s1, s2}
    Bin = {b1, b2}
    Programs <- MCPrograms
    Opening <- MCOpening
    Retries = 2
    MaxVersion = 2
    NoRow = NoRow
    NoLeg = NoLeg
    Nobody = Nobody
SPECIFICATION Spec
INVARIANT TrailChains
CHECK_DEADLOCK FALSE
