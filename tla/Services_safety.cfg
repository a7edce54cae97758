SPECIFICATION Spec
CONSTANTS
    Scopes = {s1, s2}
    Ids = {x}
    Names <- MCNames
    Canonical <- MCCanonical
    Feeds <- SharedFeeds
    Wharf = Wharf
    Callers = {c1, c2}
    Configured = s1
    Workers = {daily, manual}
    Daily = {daily}
    MaxVersions = 0
    MaxManual = 2
    Null = Null
    Rank = Rank
    Runs = {r1, r2}
    NoValue = NoValue
    ListedRuns = {1, 2, 3}
    Outcomes = {"generated"}
    Limit = 1
    MaxTime = 1
    Unset = Unset
    Sessions = {chat1, chat2}
    Posts = {p1, p2, p3}
    MaxTurns = 1
    MaxDeletes = 1
    NoSession = NoSession
    FileNames = {plan, brief}
    Uploads = {u1, u2}
    Deletions = {d1, d2}
    NoFile = NoFile
    FamilyAliases <- ModelFamilies
    ApplicationAliases <- ModelApplications
    Selections <- ModelAnswers
    Drafts <- ModelDrafts
    LeadTexts <- SomeLeads
    Chunks <- ModelChunks
    MaxAttempts = 2
    Nothing = Nothing
    Lead = {l1, l2}
    First = f1
    Second = f2
    Foreign = g1
    Ingestions <- MCIngestions
    ScopeOf <- MCScopeOf
    Background = {"generation", "delivery", "replies"}
    Requests = {q1, q2}
    MaxMessages = 2
SYMMETRY CallersAlike
CHECK_DEADLOCK FALSE
INVARIANTS
    RowsAreExplained
    PagesAreComplete
    ResultIsHonest
    DeadlocksAreConfined
PROPERTIES
    IngestionIsSafe
    RunsAreTruthful
    TurnsAreKept
    CredentialsHold
