SPECIFICATION Spec
CONSTANTS
    a = a
    b = b
    c = c
    old = old
    new = new
    Procs = {a, b, c}
    Before = Before
    Killable = {a}
    Nothing = Nothing
    Empty = Empty
    Torn = Torn
    Phones = {old, new}
    Setups <- AllSetups
    MaxMoves = 1
CHECK_DEADLOCK FALSE
INVARIANTS
    TypeOK
    
    KeyRetained
    PairingsAsIntended
    PortableOnePhone
PROPERTIES
    EnrolledThroughWindow
