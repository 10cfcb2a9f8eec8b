CONSTANTS
    b1 = b1
    b2 = b2
    Session = {s1, s2}
    Bin = {b1, b2}
    Programs <- MCPrograms
    Opening <- MCOpening
    Retries = 2
    MaxVersion = 1
    NoRow = NoRow
    NoLeg = NoLeg
    Nobody = Nobody
SPECIFICATION FairSpec
INVARIANTS TypeOK NeverOversold EveryChangeTraced TrailAdds VersionIdentifiesRow
PROPERTIES ImplementsBook RequestsEnd
CHECK_DEADLOCK FALSE
