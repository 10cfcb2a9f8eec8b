CONSTANTS
    w1 = w1
    w2 = w2
    w3 = w3
    Worker = {w1, w2}
    Nobody = Nobody
    None = None
    Stories <- OnlyRefunded
SPECIFICATION MCSpec
PROPERTY NewestWins
