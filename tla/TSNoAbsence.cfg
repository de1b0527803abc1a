SPECIFICATION FairSpec
CONSTANTS
    p1 = p1
    p2 = p2
    c1 = c1
    c2 = c2
    NoPhone = NoPhone
    NoConn = NoConn
    Phones = {p1}
    Conns = {c1, c2}
    PhoneOf <- Overlap
    Reused = {c1, c2}
    Configured = {"presence","absence"}
    WatchADB = FALSE
    Spoken = {"POLL", "BYE"}
    MaxWire = 1
    MaxPending = 2
    MaxCrashes = 0
PROPERTIES
    AbsenceAnnounced
