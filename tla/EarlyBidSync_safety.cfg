SPECIFICATION Spec
CONSTANTS
    LastDay = 1
    LastVersion = 2
    Workers = {w1, w2}
    MaxAttempts = 2
    Null = Null
SYMMETRY WorkersAlike
INVARIANTS
    TypeOK
    ApplyingIsOwned
    SyncInv
PROPERTIES
    AppliedInOrder
    DayIsFinal
    BudgetIsUsed
