CONSTANTS
    w1 = w1
    w2 = w2
    w3 = w3
    Worker = {w1, w2, w3}
    Nobody = Nobody
    None = None
    Stories <- SerialStories
SPECIFICATION MCSpec
INVARIANTS TypeOK HeaderHasItsLines OneSetOfLines
PROPERTIES StatusChangesLogged NewestWinsAlone CancelledIsFinal VerdictStays
SYMMETRY Interchangeable
