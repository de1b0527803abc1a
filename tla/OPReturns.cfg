SPECIFICATION FairSpec
CONSTANTS
    p1 = p1
    c1 = c1
    c2 = c2
    r1 = r1
    r2 = r2
    NoConn = NoConn
    NoCall = NoCall
    Phones = {p1}
    Conns = {c1, c2}
    PhoneOf <- OnePhone
    Calls = {r1, r2}
    Rule <- MixedRules
    AsksExplicit = {}
    Clients = {r1, r2}
    RuleTTL <- ExtremeTTLs
    QueueCap = 1
    EnqueueWait = 1
    PresenceWait = 1
    ReadWait = 2
    ClientWait = 3
    ExplicitWait = 3
    ExplicitClientWait = 5
    DefaultTTL = 2
    MinTTL = 1
    MaxTTL = 3
    LossyConns = {c1}
CHECK_DEADLOCK FALSE
INVARIANTS
    TypeOK
    OnePlace
    GrantedAsRequired
    ClientsOutwait
PROPERTIES
    EveryCallReturns
    HandlersGoOn
