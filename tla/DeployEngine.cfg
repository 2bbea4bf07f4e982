CONSTANTS
    Propustka = Propustka
    Runner = Runner
    Vozka = Vozka
    Config <- BaseConfig
    MaxVersion = 2
    MaxOther = 1
    Faults = 1
SPECIFICATION FairSpec
INVARIANTS  SucceededIsDeployed
PROPERTIES BaseComesUp
CHECK_DEADLOCK FALSE
