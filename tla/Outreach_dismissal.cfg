SPECIFICATION FairSpec
CONSTANTS
    Leads = {l1, l2}
    Markets = {us}
    Texts = {t1}
    ValidTexts = {t1}
    Keys = {k1}
    GenIds = {1, 2}
    DelIds = {1}
    GenWorkers = {gw1, gw2}
    DelWorkers = {dw1}
    Null = Null
INVARIANTS
    DeletedLeadHasNoQueue
    KeysUnique
PROPERTIES
    OnlyActiveLeadsWork
    TerminalIsFinal
    EveryGenerationEnds
    EveryDeliveryEnds
