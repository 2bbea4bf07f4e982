CONSTANTS
    a1 = a1
    a2 = a2
    t1 = t1
    t2 = t2
    App = {a1, a2}
    Target = {t1, t2}
    AppOf <- MCAppOf
    Branch = {main}
    Tag = {v1}
    Pattern = {releases}
    Matching <- MCMatching
    Default = main
    NoRef = NoRef
    NoRow = NoRow
    MaxPush = 2
    MaxRun = 2
    Budget = 1
SPECIFICATION FairSpec
INVARIANTS TriggersInv
PROPERTIES BranchNeverGoesBack PushesArrive
CHECK_DEADLOCK FALSE
