SPECIFICATION Spec
CONSTANTS
    Runs = {a, b}
    Absent = Absent
    Empty = Empty
    Torn = Torn
    Initial <- ExampleOnly
    UserRules <- NoRules
    MaxEdits = 0
    WritesFail = FALSE
CHECK_DEADLOCK FALSE
INVARIANTS
    UserRulesKept
