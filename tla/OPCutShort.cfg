SPECIFICATION Spec
CONSTANTS
    p1 = p1
    c1 = c1
    c2 = c2
    r1 = r1
    r2 = r2
    NoConn = NoConn
    NoCall = NoCall
    Phones = {p1}
    Conns = {c1}
    PhoneOf <- OnePhone
    Calls = {r1}
    Rule <- ExplicitRules
    AsksExplicit = {r1}
    Clients = {}
    RuleTTL <- NoTTL
    QueueCap = 1
    EnqueueWait = 1
    PresenceWait = 2
    ReadWait = 2
    ClientWait = 4
    ExplicitWait = 5
    ExplicitClientWait = 7
    DefaultTTL = 3
    MinTTL = 2
    MaxTTL = 4
    LossyConns = {}
CHECK_DEADLOCK FALSE
INVARIANTS
    ExplicitApprovalWaits
