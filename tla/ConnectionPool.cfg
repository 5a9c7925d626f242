SPECIFICATION FairSpec
CONSTANTS
    Requests = {r1, r2, r3}
    Conns = {c1, c2}
    None = None
    MaxSessions = 2
INVARIANTS
    TypeOK
    NoLeak
    StallTakesNested
PROPERTY EveryCallEnds
