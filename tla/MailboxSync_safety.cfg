SPECIFICATION Spec
CONSTANTS
    Pair = {w1, w2}
    Single = {w3}
    Hooks = {h1}
    Services = {"lease", "pages", "rescan", "renewal", "matching"}
    Null = Null
    Jobs = {1, 2}
    Replies = {"r1", "r2"}
    Leads = {"l1", "l2"}
    Convs = {"c1", "c2"}
    GraphIds = {1, 2}
    Scenarios <- SomeFacts
SYMMETRY PairAlike
INVARIANTS
    AttributionIsSound
PROPERTIES
    NothingForgotten
