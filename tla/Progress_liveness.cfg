SPECIFICATION Spec
CONSTANTS
    Null = Null
    Rank = Rank
    Wharf = Wharf
    Scope = Scope
    Id = Id
CHECK_DEADLOCK FALSE
PROPERTIES
    EveryRunEnds
    EveryDayIsScheduled
    LeadsSettle
    RepliesSettle
    AnswersArrive
