\* Two processes and a customer, three tools, and a buffer that overflows at two.
SPECIFICATION Spec
CONSTANTS
    t1 = t1
    t2 = t2
    t3 = t3
    p1 = p1
    p2 = p2
    c1 = c1
    Tool = {t1, t2, t3}
    Object = {p1, p2, c1}
    Process = {p1, p2}
    Forbidden = {t3}
    MaxObjects = 0
    None = None
    MaxQueue = 1
    MaxParts = 1
    MaxEditors = 1
CHECK_DEADLOCK FALSE
INVARIANTS
    TypeOK
    NothingLost
    BufferOfHidden
    OwnTitle
    BufferBounded
PROPERTIES
    EditorsKept
    Served
