\* Refused links, one request after another.
SPECIFICATION SerialSpec
CONSTANTS
    made = made
    depend = depend
    link = link
    p1 = p1
    p2 = p2
    p3 = p3
    p4 = p4
    s1 = s1
    s2 = s2
    Process = {p1, p2, p3}
    LinkType = {made}
    Made = made
    Controlled = {made}
    Up = {}
    Down = {made}
    Session = {s1}
    Idle = Idle
    MaxLinks = 3
CHECK_DEADLOCK FALSE
PROPERTIES
    RefusesOnlyCycles
