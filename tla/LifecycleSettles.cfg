CONSTANTS
    r1 = r1
    r2 = r2
    NoRun = NoRun
    app = app
    env = env
    Run = {r1}
    Consumer = {c1}
    App = {app}
    Env = {env}
    TargetOf <- MCTargetOf
    Budget <- MCBudget
    LockTTL = 2
    StaleAge = 2
    HardKill = 1
    BackstopMax = 2
    MaxInvocation = 1
    MaxRetries = 1
    Rpc = 1
    Store = 1
    Crash = 1
    Duplicate = 0
    Producer = 1
    Removal = 1
SPECIFICATION CronSpec
PROPERTIES EveryRunSettles
