SPECIFICATION Spec
CONSTANTS
    Leads = {l1}
    Markets = {us}
    Texts = {t1, t2}
    ValidTexts = {t1}
    Keys = {k1, k2}
    GenIds = {1, 2}
    DelIds = {1, 2}
    GenWorkers = {gw1}
    DelWorkers = {dw1}
    Null = Null
SYMMETRY KeysAlike
INVARIANTS
    TypeOK
    OneWorkflow
    DeliveryFrozen
    WorkflowInv
PROPERTIES
    HistoryIsReadOnly
    AuditContiguous
    UnknownBlocksGeneration
