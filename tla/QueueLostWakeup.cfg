SPECIFICATION FairSpec
CONSTANTS
    Producers = {p1, p2}
    Consumers = {c1, c2}
    Aborters = {a1}
    Data = {d1, d2}
    NoThread = NoThread
    MaxLength = 2
PROPERTIES
    AbortEndsWaiting
