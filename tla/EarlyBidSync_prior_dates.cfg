SPECIFICATION Spec
CONSTANTS
    LastDay = 1
    LastVersion = 0
    Workers = {w1, w2}
    MaxAttempts = 1
    Null = Null
PROPERTIES
    PriorDatesAreNotFetched
