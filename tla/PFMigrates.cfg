SPECIFICATION Spec
CONSTANTS
    Runs = {a, b, c}
    Absent = Absent
    Empty = Empty
    Torn = Torn
    Initial <- AllInitial
    UserRules <- OwnerRules
    MaxEdits = 1
    WritesFail = TRUE
SYMMETRY SwapRuns
CHECK_DEADLOCK FALSE
INVARIANTS
    TypeOK
    DecidesAsFresh
    SameRuleDecides
    NoRuleTwice
