\* Three users, one of them with two pages, under the conditions that the lock needs.
SPECIFICATION CareSpec
CONSTANTS
    u1 = u1
    u2 = u2
    u3 = u3
    User = {u1, u2, u3}
    Tab <- MCTab
    Life = 2
    PollTime = 1
    None = None
INVARIANTS
    TypeOK
    EditorHoldsLock
    PollsProlong
PROPERTIES
    OwnerProlongs
    ImplementsLease
    AbandonedLockEnds
    MailGoesOut
