SPECIFICATION Spec
CONSTANTS
    Leads = {l1}
    Markets = {us}
    Texts = {t1}
    ValidTexts = {t1}
    Keys = {k1}
    GenIds = {1}
    DelIds = {1}
    GenWorkers = {gw1}
    DelWorkers = {dw1}
    Null = Null
INVARIANTS
    OnlySuccessCreatesEmail
