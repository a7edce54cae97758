SPECIFICATION LegacySpec
CONSTANTS
    Leads = {l1}
    Markets = {us}
    Texts = {t1}
    ValidTexts = {t1}
    Keys = {k1, k2}
    GenIds = {1, 2, 3}
    DelIds = {1, 2}
    GenWorkers = {gw1}
    DelWorkers = {dw1}
    Null = Null
INVARIANTS
    OneWorkflow
