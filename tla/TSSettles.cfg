SPECIFICATION FairSpec
CONSTANTS
    p1 = p1
    p2 = p2
    c1 = c1
    c2 = c2
    NoPhone = NoPhone
    NoConn = NoConn
    Phones = {p1}
    Conns = {c1, c2}
    PhoneOf <- Overlap
    Reused = {c1}
    Configured = {}
    WatchADB = TRUE
    Spoken = {"POLL", "PING", "OTHER", "BYE"}
    MaxWire = 1
    MaxPending = 0
    MaxCrashes = 1
INVARIANTS
    LiveAgrees
    LiveIsServed
    NoOrphanSession
    OwnerModeHonest
    
PROPERTIES
    TrustNeedsHandshake
    VanishedPhoneForgotten
    
    UISettles
