SPECIFICATION Spec
CONSTANTS
    p1 = p1
    p2 = p2
    c1 = c1
    c2 = c2
    NoPhone = NoPhone
    NoConn = NoConn
    Phones = {p1, p2}
    Conns = {c1, c2}
    PhoneOf <- OneEach
    Reused = {c1}
    Configured = {"trust", "untrust", "presence", "absence"}
    WatchADB = FALSE
    Spoken = {"POLL"}
    MaxWire = 1
    MaxPending = 2
    MaxCrashes = 0
INVARIANTS
    TypeOK
    TrustBalance
    PresenceBalance
    ConnectedIsTrusted
    JournalTells
PROPERTIES
    BoardSpec
