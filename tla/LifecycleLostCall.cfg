CONSTANTS
    r1 = r1
    r2 = r2
    NoRun = NoRun
    app = app
    env = env
    Run = {r1, r2}
    Consumer = {c1, c2}
    App = {app}
    Env = {env}
    TargetOf <- MCTargetOf
    Budget <- MCBudget
    LockTTL = 3
    StaleAge = 2
    HardKill = 1
    BackstopMax = 2
    MaxInvocation = 1
    MaxRetries = 0
    Rpc = 1
    Store = 0
    Crash = 0
    Duplicate = 0
    Producer = 0
    Removal = 0
SPECIFICATION PromptSpec
INVARIANTS MutualExclusion
