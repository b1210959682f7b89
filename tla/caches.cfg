\* Two requests, and connections for both and for a fill of each cache.
SPECIFICATION Spec
CONSTANTS
    r1 = r1
    r2 = r2
    r3 = r3
    Request = {r1, r2}
    Active = 4
    None = None
INVARIANTS
    TypeOK
    OldOnlyIfCrossed
    FillersGoOn
    NeverAllWait
PROPERTIES
    StaleEnds
