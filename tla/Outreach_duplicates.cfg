SPECIFICATION Spec
CONSTANTS
    Leads = {l1}
    Markets = {us, nl}
    Texts = {t1}
    ValidTexts = {t1}
    Keys = {k1, k2, k3}
    GenIds = {1}
    DelIds = {1, 2, 3}
    GenWorkers = {gw1}
    DelWorkers = {dw1, dw2}
    Null = Null
SYMMETRY KeysAndWorkers
INVARIANTS
    DuplicateOnlyAcknowledged
    NoReplay
    SentMeansAccepted
PROPERTIES
    TerminalIsFinal
    ImplementsContract
