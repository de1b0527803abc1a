SPECIFICATION FairSpec
CONSTANTS
    d1 = d1
    d2 = d2
    Devices = {d1, d2}
    NoDevice = NoDevice
    Target = NoDevice
    LANPhones = {d2}
    Limit = 2
CHECK_DEADLOCK FALSE
INVARIANTS
    TypeOK
PROPERTIES
    WakeLimited
    PulseOnNotedPhone
    WokenAgain
