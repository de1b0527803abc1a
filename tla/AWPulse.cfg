SPECIFICATION Spec
CONSTANTS
    d1 = d1
    d2 = d2
    Devices = {d1, d2}
    NoDevice = NoDevice
    Target = NoDevice
    LANPhones = {}
    Limit = 2
CHECK_DEADLOCK FALSE
PROPERTIES
    WrongPhoneNever
